---------------------------- MODULE Spec2Model ----------------------------
(***************************************************************************)
(* A model of the scheduled-notification engine of telegram-alarm-bot:     *)
(* ScheduleService (the runtime scheduler with its two registry maps),     *)
(* ScheduleStorageService (the store), the request validation of the       *)
(* create/update payloads and the timer / recurring-job primitives the     *)
(* service drives.                                                         *)
(*                                                                         *)
(* Every async method is cut at its awaits.  A store request has two       *)
(* moments: the moment the database executes it (Db... actions) and the    *)
(* moment the awaiting method resumes with the answer (...Resume actions); *)
(* the code between two awaits runs as one step.  Time is a discrete       *)
(* clock; a one-shot timer is due as soon as the clock reaches its instant *)
(* and the clock does not pass a due timer.  Delays stay below the         *)
(* 2^31-1 ms limit of setTimeout.                                          *)
(***************************************************************************)
EXTENDS Integers, Sequences, FiniteSets, Bags, TLC

(* ------------------------------ bounds -------------------------------- *)
\* ids the store hands out (uuid: never reused)
MaxIds == 2
\* ids the store hands out when requests overlap
MaxOverlapIds == 1
\* last instant of the clock
MaxTime == 2
\* CronJob objects and timeouts alive at once
MaxHandles == 2
\* requests, ticks and summary runs in progress at once
MaxCalls == 2
\* terms in a cron field the matchers are called with
MaxTerms == 3
\* largest value the field matcher is called with
MaxValue == 12

(* ------------------------------ values -------------------------------- *)
\* an absent map key (Map.get gives undefined)
NoHandle == 0
\* the id field of a request that has no id (yet)
NoId == 0
\* scheduledAt: Date | null -- null
NullDate == -1
\* an Invalid Date: a Date object whose getTime() is NaN (new Date(""))
InvalidDate == -2
\* the clock when the first process starts
StartTime == 1

Undef == "<undefined>"
Null == "<null>"

Ids == 1..MaxIds
Handles == 1..MaxHandles

\* TELEGRAM_DEFAULT_CHAT_ID
defaultChatId == "D0"

(* cron expressions: two the CronJob constructor accepts, one it rejects *)
GoodCron == "0 9 * * 1-5"
OtherCron == "0 18 * * *"
BadCron == "bad"
ValidCrons == {GoodCron, OtherCron}

\* new CronJob(cron, ...) throws on an expression it cannot parse (null,
\* empty, or not a cron expression)
CronValid(cron) == cron \in ValidCrons

(* a string-typed scheduledAt of a payload: absent, "", a text that is no
   date (such as "x") or the ISO text of instant t *)
AtUndef == [k |-> "undef", t |-> 0]
AtEmpty == [k |-> "empty", t |-> 0]
AtText == [k |-> "text", t |-> 0]
AtIso(t) == [k |-> "iso", t |-> t]

\* JavaScript truthiness of a string | undefined | null
Truthy(s) == s.k \in {"iso", "text"}

\* new Date(s) for a payload string: the instant of an ISO text, an
\* Invalid Date for the empty string and for a text that is no date
ParseDate(s) ==
  IF s.k = "iso" THEN s.t ELSE InvalidDate

\* date.getTime() <= t, which is false for the NaN of an Invalid Date
NotAfter(date, t) == date # InvalidDate /\ date <= t

(* ------------------------------ records ------------------------------- *)
NoRec ==
  [type |-> "none", enabled |-> FALSE, cron |-> Null, scheduledAt |-> NullDate,
   chatId |-> "", message |-> "", name |-> ""]

NoDto ==
  [type |-> Undef, cron |-> Undef, scheduledAt |-> AtUndef, enabled |-> Undef,
   chatId |-> Undef, message |-> Undef, name |-> Undef, eventTime |-> Undef,
   description |-> Undef]

\* a request before it has done anything
IdleCall ==
  [op |-> "idle", pc |-> "idle", id |-> NoId, dto |-> NoDto, rec |-> NoRec,
   result |-> "none", http |-> "none", all |-> <<>>, filtered |-> <<>>]

\* a slot of the runtime that holds no CronJob and no timeout; pending are
\* the sends of a CronJob's ticks that have not settled, by their outcome
NoneHandle ==
  [kind |-> "none", id |-> NoId, st |-> "none", fireAt |-> NullDate, sends |-> 0,
   sent |-> "none", pending |-> EmptyBag, chatId |-> "", message |-> ""]

VARIABLES
  now,              \* Date.now()
  phase,            \* "boot" | "up" | "down" | "crashed": the process lifecycle
  store,            \* the scheduled_notifications table: id -> record
  nextId,           \* the next id the table assigns
  cronJobs,         \* ScheduleService.cronJobs: id -> handle
  timers,           \* ScheduleService.timers: id -> handle
  handles,          \* the runtime's CronJob objects and timeouts
  dailySummaryJob,  \* "none" | "running" | "stopped"
  calls,            \* the requests in progress: a bag of call frames
  restore,          \* the restoreSchedules run of this process
  overlap,          \* whether requests and callbacks may overlap at their awaits
  digests,          \* the sendDailySummary runs in progress
  probe             \* a call of one of the service's pure helpers

vars ==
  <<now, phase, store, nextId, cronJobs, timers, handles,
    dailySummaryJob, calls, restore, overlap, digests, probe>>


(* ---------------------- the persisted record fields -------------------- *)
\* the payloads POST /schedule is tried with
\* a payload with its required name and message
Named == [NoDto EXCEPT !.name = "n1", !.message = "m1"]

\* payloads that leave every optional field out
PlainDtos ==
  {[Named EXCEPT !.type = "fixed", !.cron = cr] :
     cr \in {Undef, "", BadCron, GoodCron}}
  \cup
  {[Named EXCEPT !.type = "manual", !.scheduledAt = s] :
     s \in {AtUndef, AtEmpty} \cup {AtIso(t) : t \in StartTime..(MaxTime + 1)}}
  \cup
  {[Named EXCEPT !.type = "event", !.scheduledAt = s] :
     s \in {AtUndef, AtIso(StartTime), AtIso(MaxTime + 1)}}

\* payloads of each kind with an empty chatId, and with a chatId, an
\* eventTime and a description
FieldDtos ==
  LET kinds == {[Named EXCEPT !.type = "fixed", !.cron = GoodCron],
                [Named EXCEPT !.type = "manual", !.scheduledAt = AtIso(MaxTime + 1)],
                [Named EXCEPT !.type = "event", !.scheduledAt = AtIso(StartTime)]}
  IN {[dto EXCEPT !.chatId = ""] : dto \in kinds}
     \cup {[dto EXCEPT !.chatId = "C1", !.eventTime = "09:00",
                       !.description = "d1"] : dto \in kinds}

\* payloads whose scheduledAt is a text that is no date
TextDateDtos ==
  {[Named EXCEPT !.type = type, !.scheduledAt = AtText] :
     type \in {"manual", "event"}}

CreateDtos == PlainDtos \cup FieldDtos \cup TextDateDtos

\* a payload that changes what is sent and where to: a new message and an
\* empty chatId
TextDtos ==
  {[NoDto EXCEPT !.message = "m2", !.chatId = ""]}

\* the payloads PATCH /schedule/:id is tried with
UpdateDtos ==
  TextDtos \cup
  {[NoDto EXCEPT !.scheduledAt = s] :
     s \in {AtEmpty} \cup {AtIso(t) : t \in (StartTime + 1)..(MaxTime + 1)}}
  \cup {[NoDto EXCEPT !.enabled = e] : e \in {"true", "false"}}
  \cup {[NoDto EXCEPT !.cron = cr] : cr \in {BadCron, OtherCron}}

\* the payloads tried on a record of a kind: a new expression for a
\* recurring record and new text for it, a new instant for a one-shot
\* record, an empty one for a one-shot and an event record, the enabled flag
\* for all; anything for an id that has no record
UpdateDtosFor(type) ==
  IF type = "none" THEN UpdateDtos
  ELSE {dto \in UpdateDtos :
          /\ dto.cron # Undef => type = "fixed"
          /\ dto \in TextDtos => type = "fixed"
          /\ dto.scheduledAt.k # "undef"
               => (type = "manual" \/ (type = "event" /\ dto.scheduledAt = AtEmpty))}

\* a pipe without the rule on cron
NoCronRuleDto(dto) ==
  /\ dto.type \in {"fixed", "manual", "event"}
  /\ dto.name \notin {Undef, Null, ""}
  /\ dto.message \notin {Undef, Null, ""}
  /\ dto.type \in {"manual", "event"} => dto.scheduledAt.k \in {"iso", "text"}

\* a pipe without the rule on scheduledAt
NoInstantRuleDto(dto) ==
  /\ dto.type \in {"fixed", "manual", "event"}
  /\ dto.name \notin {Undef, Null, ""}
  /\ dto.message \notin {Undef, Null, ""}
  /\ dto.type = "fixed" => dto.cron \notin {Undef, Null, ""}

\* CreateScheduleDto under the global ValidationPipe: type is one of the
\* three kinds; name and message are non-empty strings; cron is a non-empty
\* string when type is fixed; scheduledAt is a non-empty string when type
\* is manual or event
ValidCreateDto(dto) ==
  /\ dto.type \in {"fixed", "manual", "event"}
  /\ dto.name \notin {Undef, Null, ""}
  /\ dto.message \notin {Undef, Null, ""}
  /\ dto.type = "fixed" => dto.cron \notin {Undef, Null, ""}
  /\ dto.type \in {"manual", "event"} => dto.scheduledAt.k \in {"iso", "text"}

\* a check that lets the present instant through
BeforeNow(dto, t) ==
  /\ dto.type = "manual" /\ Truthy(dto.scheduledAt)
  /\ ParseDate(dto.scheduledAt) # InvalidDate /\ ParseDate(dto.scheduledAt) < t

\* ScheduleService.create: the payload of a one-shot schedule names an
\* instant that is not in the future
PastAtCreate(dto, t) ==
  /\ dto.type = "manual" /\ Truthy(dto.scheduledAt)
  /\ NotAfter(ParseDate(dto.scheduledAt), t)

\* a check that never rejects
NeverPast(existing, dto, t) == FALSE

\* ScheduleService.update: the payload moves a one-shot schedule to an
\* instant that is not in the future
PastAtUpdate(existing, dto, t) ==
  /\ Truthy(dto.scheduledAt) /\ existing.type = "manual"
  /\ NotAfter(ParseDate(dto.scheduledAt), t)

\* ScheduleService.toggleEnabled: the one-shot schedule to re-enable has
\* no instant or one that is not in the future (NaN <= now is false)
Elapsed(schedule, t) ==
  \/ schedule.scheduledAt = NullDate
  \/ NotAfter(schedule.scheduledAt, t)

\* the fields ScheduleService.create hands to storage.create
NewRecord(dto) ==
  [type |-> dto.type,
   name |-> dto.name,
   message |-> dto.message,
   chatId |-> IF dto.chatId \in {Undef, Null, ""} THEN defaultChatId ELSE dto.chatId,
   enabled |-> TRUE,
   cron |-> IF dto.cron \in {Undef, Null} THEN Null ELSE dto.cron,
   scheduledAt |-> IF Truthy(dto.scheduledAt) THEN ParseDate(dto.scheduledAt)
                   ELSE NullDate,
   eventTime |-> IF dto.eventTime \in {Undef, Null} THEN Null ELSE dto.eventTime,
   description |-> IF dto.description \in {Undef, Null} THEN Null
                   ELSE dto.description]

\* the columns of ScheduledNotificationEntity that a payload can fill (id
\* and createdAt are generated): the entity has no eventTime and no
\* description
Columns ==
  {"type", "name", "message", "chatId", "enabled", "cron", "scheduledAt"}

\* repo.create(data): the entity takes the properties that are columns and
\* drops the others
Persist(data) == [f \in Columns |-> data[f]]

\* updateData of ScheduleService.update applied to a row by repo.update
\* (the payloads tried name columns only)
ApplyPartial(rec, dto) ==
  [rec EXCEPT
     !.cron = IF dto.cron = Undef THEN @ ELSE dto.cron,
     !.scheduledAt = IF dto.scheduledAt.k = "undef" THEN @
                     ELSE ParseDate(dto.scheduledAt),
     !.enabled = IF dto.enabled = Undef THEN @ ELSE dto.enabled = "true",
     !.chatId = IF dto.chatId = Undef THEN @ ELSE dto.chatId,
     !.message = IF dto.message = Undef THEN @ ELSE dto.message,
     !.name = IF dto.name = Undef THEN @ ELSE dto.name]

(* ------------------------------- text ---------------------------------- *)
\* a string as the sequence of its characters
DigitChars == <<"0", "1", "2", "3", "4", "5", "6", "7", "8", "9">>

IsDigit(c) == \E k \in 1..Len(DigitChars) : DigitChars[k] = c

DigitValue(c) == (CHOOSE k \in 1..Len(DigitChars) : DigitChars[k] = c) - 1

\* String(n) for a natural number
RECURSIVE Decimal(_)
Decimal(n) ==
  IF n < Len(DigitChars) THEN <<DigitChars[n + 1]>>
  ELSE Decimal(n \div Len(DigitChars)) \o <<DigitChars[(n % Len(DigitChars)) + 1]>>

\* a JavaScript number that may be NaN
NaN == [nan |-> TRUE, v |-> 0]
Num(n) == [nan |-> FALSE, v |-> n]

RECURSIVE DigitsValue(_, _)
DigitsValue(s, acc) ==
  IF s = <<>> THEN acc
  ELSE DigitsValue(Tail(s), acc * Len(DigitChars) + DigitValue(Head(s)))

AllDigits(s) == s # <<>> /\ \A k \in 1..Len(s) : IsDigit(s[k])

\* Number(s) for a string of digits, signs and cron punctuation: the empty
\* string is 0, an optionally signed run of digits is its value, anything
\* else is NaN
Number(s) ==
  IF s = <<>> THEN Num(0)
  ELSE IF AllDigits(s) THEN Num(DigitsValue(s, 0))
  ELSE IF Head(s) = "-" /\ AllDigits(Tail(s)) THEN Num(0 - DigitsValue(Tail(s), 0))
  ELSE NaN

\* s.includes(c)
Includes(s, c) == \E k \in 1..Len(s) : s[k] = c

\* s.split(c) for a one-character separator
RECURSIVE SplitFrom(_, _, _)
SplitFrom(s, c, cur) ==
  IF s = <<>> THEN <<cur>>
  ELSE IF Head(s) = c THEN <<cur>> \o SplitFrom(Tail(s), c, <<>>)
  ELSE SplitFrom(Tail(s), c, Append(cur, Head(s)))

Split(s, c) == SplitFrom(s, c, <<>>)

\* s.trim().split(/\s+/): the runs of non-blank characters, or one empty
\* string when there is none
RECURSIVE Words(_, _)
Words(s, cur) ==
  IF s = <<>> THEN (IF cur = <<>> THEN <<>> ELSE <<cur>>)
  ELSE IF Head(s) = " "
       THEN (IF cur = <<>> THEN <<>> ELSE <<cur>>) \o Words(Tail(s), <<>>)
  ELSE Words(Tail(s), Append(cur, Head(s)))

SplitBlank(s) == IF Words(s, <<>>) = <<>> THEN << <<>> >> ELSE Words(s, <<>>)

\* value % step === 0 for a value that is not negative
RemainderIsZero(value, step) ==
  /\ ~step.nan /\ step.v # 0
  /\ value % (IF step.v < 0 THEN 0 - step.v ELSE step.v) = 0

\* a loop body whose range leaves its end out
FieldPartMatchesOpen(part, value) ==
  IF Includes(part, "/")
  THEN LET range == Split(part, "/")[1]
           step == Number(Split(part, "/")[2])
       IN range = <<"*">> /\ RemainderIsZero(value, step)
  ELSE IF Includes(part, "-")
  THEN LET start == Number(Split(part, "-")[1])
           end == Number(Split(part, "-")[2])
       IN /\ ~start.nan /\ value >= start.v
          /\ ~end.nan /\ value < end.v
  ELSE ~Number(part).nan /\ Number(part).v = value

\* one sub-term of cronFieldMatches' loop
FieldPartMatches(part, value) ==
  IF Includes(part, "/")
  THEN LET range == Split(part, "/")[1]
           step == Number(Split(part, "/")[2])
       IN range = <<"*">> /\ RemainderIsZero(value, step)
  ELSE IF Includes(part, "-")
  THEN LET start == Number(Split(part, "-")[1])
           end == Number(Split(part, "-")[2])
       IN /\ ~start.nan /\ value >= start.v
          /\ ~end.nan /\ value <= end.v
  ELSE ~Number(part).nan /\ Number(part).v = value

\* ScheduleService.cronFieldMatches
cronFieldMatches(field, value) ==
  IF field = <<"*">> THEN TRUE
  ELSE \E k \in 1..Len(Split(field, ",")) :
         FieldPartMatches(Split(field, ",")[k], value)

\* one sub-term of cronDowMatches' loop
DowPartMatches(part, todayDow) ==
  IF Includes(part, "-")
  THEN LET start == Number(Split(part, "-")[1])
           end == Number(Split(part, "-")[2])
       IN /\ ~start.nan /\ todayDow >= start.v
          /\ ~end.nan /\ todayDow <= end.v
  ELSE LET val == Number(part)
       IN ~val.nan /\ (val.v = todayDow \/ (val.v = 7 /\ todayDow = 0))

\* ScheduleService.cronDowMatches
cronDowMatches(field, todayDow) ==
  IF field = <<"*">> THEN TRUE
  ELSE \E k \in 1..Len(Split(field, ",")) :
         DowPartMatches(Split(field, ",")[k], todayDow)

\* ScheduleService.cronMatchesToday
cronMatchesToday(cron, todayDow, todayDate, todayMonth) ==
  LET parts == SplitBlank(cron)
  IN IF Len(parts) < 5 THEN FALSE
     ELSE /\ cronFieldMatches(parts[4], todayMonth)
          /\ cronFieldMatches(parts[3], todayDate)
          /\ cronDowMatches(parts[5], todayDow)

(* ------------------------------- dates --------------------------------- *)
\* a Date is its time value, counted in hours since 1970-01-01T00:00Z

\* the +09:00 shift the service adds by hand: 9 * 60 * 60 * 1000 ms
KstShift == 9

\* the UTC calendar fields of a day number (days since 1970-01-01), as the
\* runtime computes them in the proleptic Gregorian calendar
CivilOfDay(day) ==
  LET z == day + 719468
      era == z \div 146097
      doe == z - era * 146097
      yoe == (doe - doe \div 1460 + doe \div 36524 - doe \div 146096) \div 365
      doy == doe - (365 * yoe + yoe \div 4 - yoe \div 100)
      mp == (5 * doy + 2) \div 153
      m == IF mp < 10 THEN mp + 3 ELSE mp - 9
  IN [year |-> yoe + era * 400 + (IF m <= 2 THEN 1 ELSE 0),
      month |-> m - 1,
      date |-> doy - (153 * mp + 2) \div 5 + 1]

getUTCFullYear(d) == CivilOfDay(d \div 24).year
getUTCMonth(d) == CivilOfDay(d \div 24).month
getUTCDate(d) == CivilOfDay(d \div 24).date
\* 1970-01-01 was a Thursday
getUTCDay(d) == ((d \div 24) + 4) % 7

\* a comparison that forgets to shift the record's time
isDateTodayUnshifted(date, kstNow) ==
  /\ getUTCFullYear(date) = getUTCFullYear(kstNow)
  /\ getUTCMonth(date) = getUTCMonth(kstNow)
  /\ getUTCDate(date) = getUTCDate(kstNow)

\* ScheduleService.isDateToday
isDateToday(date, kstNow) ==
  LET kst == date + KstShift
  IN /\ getUTCFullYear(kst) = getUTCFullYear(kstNow)
     /\ getUTCMonth(kst) = getUTCMonth(kstNow)
     /\ getUTCDate(kst) = getUTCDate(kstNow)

\* the time value of the instants the service is run at: instant 1 is
\* 2024-05-31T00:00Z (a Friday, 09:00 at +09:00) and each instant is nine
\* hours after the one before, so instants 1 and 2 share a +09:00 calendar
\* date and instant 3 falls on the Saturday after
TimeOf(t) == 476976 + 9 * (t - 1)

\* cron fields as the terms they are written with
Lit(n) == [k |-> "lit", a |-> n, b |-> 0]
Range(a, b) == [k |-> "range", a |-> a, b |-> b]
Step(n) == [k |-> "step", a |-> n, b |-> 0]
Star == [k |-> "star", a |-> 0, b |-> 0]

\* the text of a term
TermText(term) ==
  IF term.k = "lit" THEN Decimal(term.a)
  ELSE IF term.k = "range" THEN Decimal(term.a) \o <<"-">> \o Decimal(term.b)
  ELSE IF term.k = "step" THEN <<"*", "/">> \o Decimal(term.a)
  ELSE <<"*">>

\* the text of a field: its terms joined by commas
RECURSIVE FieldText(_)
FieldText(terms) ==
  IF Len(terms) = 1 THEN TermText(terms[1])
  ELSE TermText(Head(terms)) \o <<",">> \o FieldText(Tail(terms))

\* the text of an expression: its fields joined by blanks
RECURSIVE CronText(_)
CronText(fields) ==
  IF fields = <<>> THEN <<>>
  ELSE IF Len(fields) = 1 THEN FieldText(fields[1])
  ELSE FieldText(Head(fields)) \o <<" ">> \o CronText(Tail(fields))

\* sendDailySummary's question for a recurring record: does the expression
\* fire on the +09:00 calendar date of now
firesToday(cron, t) ==
  LET kstNow == t + KstShift
  IN cronMatchesToday(cron, getUTCDay(kstNow), getUTCDate(kstNow),
                      getUTCMonth(kstNow) + 1)

\* an expression that fires on Saturdays only
SatCron == "0 9 * * 6"

\* an expression that fires on the even days of the week
StepCron == "0 9 * * */2"

\* expressions that fire at 10:00 on weekdays, at 12:30 and at 13:00
TenCron == "0 10 * * 1-5"
HalfCron == "30 12 * * *"
OneCron == "0 13 * * *"

\* the fields of the expressions the service is run with
CronFields(cron) ==
  IF cron = TenCron
  THEN << <<Lit(0)>>, <<Lit(10)>>, <<Star>>, <<Star>>, <<Range(1, 5)>> >>
  ELSE IF cron = HalfCron
  THEN << <<Lit(30)>>, <<Lit(12)>>, <<Star>>, <<Star>>, <<Star>> >>
  ELSE IF cron = OneCron
  THEN << <<Lit(0)>>, <<Lit(13)>>, <<Star>>, <<Star>>, <<Star>> >>
  ELSE IF cron = GoodCron
  THEN << <<Lit(0)>>, <<Lit(9)>>, <<Star>>, <<Star>>, <<Range(1, 5)>> >>
  ELSE IF cron = OtherCron
  THEN << <<Lit(0)>>, <<Lit(18)>>, <<Star>>, <<Star>>, <<Star>> >>
  ELSE IF cron = StepCron
  THEN << <<Lit(0)>>, <<Lit(9)>>, <<Star>>, <<Star>>, <<Step(2)>> >>
  ELSE << <<Lit(0)>>, <<Lit(9)>>, <<Star>>, <<Star>>, <<Lit(6)>> >>

\* the characters of a stored expression
Chars(cron) ==
  IF cron = BadCron THEN <<"b", "a", "d">> ELSE CronText(CronFields(cron))

(* --------------------------- the daily summary ------------------------- *)
\* a row of the table as an entity: the record with its id
Row(id, rec) == [id |-> id, rec |-> rec]

\* storage.findAll: the rows in creation order (ids are handed out in
\* creation order)
RECURSIVE RowsFrom(_, _)
RowsFrom(table, i) ==
  IF i > Len(table) THEN <<>>
  ELSE (IF table[i].type = "none" THEN <<>> ELSE <<Row(i, table[i])>>)
       \o RowsFrom(table, i + 1)

Rows(table) == RowsFrom(table, 1)

\* s.chatId || this.defaultChatId
ChatOf(rec) == IF rec.chatId = "" THEN defaultChatId ELSE rec.chatId

\* the keys of byChatId in insertion order
RECURSIVE ChatOrder(_, _)
ChatOrder(rows, seen) ==
  IF rows = <<>> THEN <<>>
  ELSE IF ChatOf(Head(rows).rec) \in seen THEN ChatOrder(Tail(rows), seen)
  ELSE <<ChatOf(Head(rows).rec)>>
       \o ChatOrder(Tail(rows), seen \cup {ChatOf(Head(rows).rec)})

\* a row goes to todayAlarms (isDateToday of an Invalid Date is false: its
\* getUTC... are NaN)
IsAlarm(rec, t) ==
  \/ /\ rec.type = "fixed" /\ rec.cron \notin {Null, ""}
     /\ firesToday(Chars(rec.cron), TimeOf(t))
  \/ /\ rec.type = "manual" /\ rec.scheduledAt # NullDate
     /\ rec.scheduledAt # InvalidDate
     /\ isDateToday(TimeOf(rec.scheduledAt), TimeOf(t) + KstShift)

\* a row goes to todayEvents
IsEvent(rec, t) ==
  /\ rec.type = "event" /\ rec.scheduledAt # NullDate
  /\ rec.scheduledAt # InvalidDate
  /\ isDateToday(TimeOf(rec.scheduledAt), TimeOf(t) + KstShift)

\* pad(n): String(n).padStart(2, '0')
pad(n) ==
  LET text == IF n.nan THEN <<"N", "a", "N">> ELSE Decimal(n.v)
  IN IF Len(text) < 2 THEN <<"0">> \o text ELSE text

\* the display time of an alarm: the word for am or pm, the hour on the
\* 12-hour clock, a colon and the padded minute (comparisons with NaN are
\* false).  The two Hangul syllables of the words are written O J (am)
\* and O H (pm)
DisplayTime(hour, minute) ==
  LET ampm == IF ~hour.nan /\ hour.v < 12 THEN <<"O", "J">> ELSE <<"O", "H">>
      h12 == IF hour.nan THEN <<"N", "a", "N">>
             ELSE IF hour.v = 0 THEN Decimal(12)
             ELSE IF hour.v > 12 THEN Decimal(hour.v - 12)
             ELSE Decimal(hour.v)
  IN ampm \o <<" ">> \o h12 \o <<":">> \o pad(minute)

\* getUTCHours of a time in hours
getUTCHours(d) == d % 24

\* the time field of the item pushed to todayAlarms for a row
AlarmTime(rec) ==
  IF rec.type = "fixed"
  THEN LET parts == SplitBlank(Chars(rec.cron))
           field(k) == IF k <= Len(parts) THEN Number(parts[k]) ELSE NaN
       IN DisplayTime(field(2), field(1))
  ELSE DisplayTime(Num(getUTCHours(TimeOf(rec.scheduledAt) + KstShift)), Num(0))

\* the place of a character in the collation order localeCompare uses:
\* blanks, punctuation, digits, Latin letters, Hangul (O, J, H stand for
\* the syllables of the am and pm words, in their order)
Collation ==
  <<" ", ":", "0", "1", "2", "3", "4", "5", "6", "7", "8", "9",
    "a", "N", "O", "J", "H">>

Rank(c) == CHOOSE k \in 1..Len(Collation) : Collation[k] = c

\* a.localeCompare(b): negative, zero or positive
RECURSIVE localeCompare(_, _)
localeCompare(a, b) ==
  IF a = <<>> /\ b = <<>> THEN 0
  ELSE IF a = <<>> THEN -1
  ELSE IF b = <<>> THEN 1
  ELSE IF Rank(Head(a)) < Rank(Head(b)) THEN -1
  ELSE IF Rank(Head(a)) > Rank(Head(b)) THEN 1
  ELSE localeCompare(Tail(a), Tail(b))

\* an item put into a sorted list behind the items that do not come after it
RECURSIVE InsertSorted(_, _)
InsertSorted(item, sorted) ==
  IF sorted = <<>> THEN <<item>>
  ELSE IF localeCompare(item.time, Head(sorted).time) < 0 THEN <<item>> \o sorted
  ELSE <<Head(sorted)>> \o InsertSorted(item, Tail(sorted))

\* todayAlarms.sort((a, b) => a.time.localeCompare(b.time)): a stable sort
RECURSIVE Sort(_)
Sort(items) ==
  IF items = <<>> THEN <<>>
  ELSE InsertSorted(items[Len(items)], Sort(SubSeq(items, 1, Len(items) - 1)))

\* todayAlarms of a chat before the sort: an item for each row that fires
\* today, in the order of the rows
RECURSIVE todayAlarms(_, _, _)
todayAlarms(chatId, rows, t) ==
  IF rows = <<>> THEN <<>>
  ELSE (IF ChatOf(Head(rows).rec) = chatId /\ IsAlarm(Head(rows).rec, t)
        THEN <<[id |-> Head(rows).id, time |-> AlarmTime(Head(rows).rec)]>>
        ELSE <<>>)
       \o todayAlarms(chatId, Tail(rows), t)

\* the text sent to one chat, by what it lists: the events, the alarms
\* among the chat's rows, and the alarms in the order of their lines
DigestFor(chatId, rows, t) ==
  LET mine == {k \in 1..Len(rows) : ChatOf(rows[k].rec) = chatId}
  IN [chatId |-> chatId,
      alarms |-> {rows[k].id : k \in {m \in mine : IsAlarm(rows[m].rec, t)}},
      events |-> {rows[k].id : k \in {m \in mine : IsEvent(rows[m].rec, t)}},
      lines |-> Sort(todayAlarms(chatId, rows, t))]

\* sendDailySummary on the rows storage.findAll answered, at instant t: the
\* sends it makes, in order; a chat with nothing today is skipped
RECURSIVE SendsFor(_, _, _)
SendsFor(chats, rows, t) ==
  IF chats = <<>> THEN <<>>
  ELSE LET digest == DigestFor(Head(chats), rows, t)
       IN (IF digest.alarms = {} /\ digest.events = {} THEN <<>> ELSE <<digest>>)
          \o SendsFor(Tail(chats), rows, t)

sendDailySummary(rows, t) ==
  LET enabled == SelectSeq(rows, LAMBDA s : s.rec.enabled)
  IN SendsFor(ChatOrder(enabled, {}), enabled, t)

(* ------------------------- the registry primitives --------------------- *)
\* the registry and the runtime's handles as one value, so that the
\* private methods below are functions from registry to registry
Reg ==
  [cj |-> cronJobs, tm |-> timers, hs |-> handles, ovf |-> FALSE,
   threw |-> FALSE]

SetReg(R) ==
  /\ ~R.ovf
  /\ cronJobs' = R.cj
  /\ timers' = R.tm
  /\ handles' = R.hs

Free(R) == {h \in Handles : R.hs[h].kind = "none"}

\* the slot a new CronJob or timeout takes
NewHandle(R) == CHOOSE h \in Free(R) : \A g \in Free(R) : h <= g

\* CronJob.stop(): the job never ticks again; a tick whose send is pending
\* runs to its end
StopHandle(h) == IF h.pending # EmptyBag THEN [h EXCEPT !.st = "stopped"] ELSE NoneHandle

\* clearTimeout: a timeout that has not run yet never runs; one whose
\* callback has started is not touched
ClearHandle(h) == IF h.st = "armed" THEN NoneHandle ELSE h

\* a stopJob that forgets the timer: it stops the recurring job only
stopJobCronOnly(R, id) ==
  LET cronJob == R.cj[id]
  IN IF cronJob # NoHandle
     THEN [R EXCEPT !.hs[cronJob] = StopHandle(@), !.cj[id] = NoHandle]
     ELSE R

\* a stopJob that forgets the recurring job: it clears the timer only
stopJobTimerOnly(R, id) ==
  LET timer == R.tm[id]
  IN IF timer # NoHandle
     THEN [R EXCEPT !.hs[timer] = ClearHandle(@), !.tm[id] = NoHandle]
     ELSE R

\* ScheduleService.stopJob
stopJob(R, id) ==
  LET cronJob == R.cj[id]
      R1 == IF cronJob # NoHandle
            THEN [R EXCEPT !.hs[cronJob] = StopHandle(@), !.cj[id] = NoHandle]
            ELSE R
      timer == R1.tm[id]
  IN IF timer # NoHandle
     THEN [R1 EXCEPT !.hs[timer] = ClearHandle(@), !.tm[id] = NoHandle]
     ELSE R1

\* ScheduleService.startCronJob: the constructor throws on a bad
\* expression, the catch logs it and nothing is registered
startCronJob(R, id, schedule) ==
  IF ~CronValid(schedule.cron) THEN R
  ELSE IF Free(R) = {} THEN [R EXCEPT !.ovf = TRUE]
  ELSE [R EXCEPT
          !.hs[NewHandle(R)] =
             [NoneHandle EXCEPT !.kind = "cron", !.id = id, !.st = "running",
                                !.chatId = schedule.chatId,
                                !.message = schedule.message],
          !.cj[id] = NewHandle(R)]

\* ScheduleService.startTimer: for an Invalid Date the delay is NaN, which
\* is not <= 0, and setTimeout(callback, NaN) runs the callback at once;
\* with the timeout set and registered, scheduledAt.toISOString() in the
\* log line throws RangeError, which leaves startTimer and its caller
startTimer(R, id, schedule, t) ==
  LET nan == schedule.scheduledAt = InvalidDate
      delay == schedule.scheduledAt - t
  IN IF ~nan /\ delay <= 0 THEN R
     ELSE IF Free(R) = {} THEN [R EXCEPT !.ovf = TRUE]
     ELSE [R EXCEPT
             !.hs[NewHandle(R)] =
                [NoneHandle EXCEPT !.kind = "timer", !.id = id, !.st = "armed",
                                   !.fireAt = IF nan THEN t
                                              ELSE schedule.scheduledAt,
                                   !.chatId = schedule.chatId,
                                   !.message = schedule.message],
             !.tm[id] = NewHandle(R),
             !.threw = nan]

\* a clearAllJobs that empties the maps but clears no timeout
clearNoTimeout(R) ==
  [R EXCEPT
     !.hs = [h \in Handles |->
               IF \E i \in Ids : R.cj[i] = h THEN StopHandle(R.hs[h])
               ELSE R.hs[h]],
     !.cj = [i \in Ids |-> NoHandle],
     !.tm = [i \in Ids |-> NoHandle]]

\* ScheduleService.clearAllJobs
clearAllJobs(R) ==
  [R EXCEPT
     !.hs = [h \in Handles |->
               IF \E i \in Ids : R.cj[i] = h THEN StopHandle(R.hs[h])
               ELSE IF \E i \in Ids : R.tm[i] = h THEN ClearHandle(R.hs[h])
               ELSE R.hs[h]],
     !.cj = [i \in Ids |-> NoHandle],
     !.tm = [i \in Ids |-> NoHandle]]

(* ------------------------------- Init ---------------------------------- *)
\* no helper is being called
NoProbe == [fn |-> "none", arg |-> <<>>, done |-> FALSE, out |-> FALSE]

NoRestore == [pc |-> "idle", at |-> NoId, snap |-> [i \in Ids |-> NoRec]]

\* no sendDailySummary run is in progress
NoSummary == EmptyBag

\* the first process starts on an empty table; onModuleInit has called
\* restoreSchedules, whose findAll is pending
InitProgram ==
  /\ now = StartTime
  /\ phase = "boot"
  /\ store = [i \in Ids |-> NoRec]
  /\ nextId = 1
  /\ cronJobs = [i \in Ids |-> NoHandle]
  /\ timers = [i \in Ids |-> NoHandle]
  /\ handles = [h \in Handles |-> NoneHandle]
  /\ dailySummaryJob = "none"
  /\ calls = EmptyBag
  /\ restore = [NoRestore EXCEPT !.pc = "read"]
  /\ digests = NoSummary


\* requests and callbacks overlap at their awaits
Init == InitProgram /\ overlap = TRUE /\ probe = NoProbe

\* every request and every callback runs to completion before the next starts
InitSeq == InitProgram /\ overlap = FALSE /\ probe = NoProbe

(* ------------------------------ requests ------------------------------- *)
InProgress == BagToSet(calls)

\* the callback of the timeout, or a tick of the job, is between two awaits
InFlight(h) ==
  \/ handles[h].st \in {"sending", "writing", "written"}
  \/ handles[h].pending # EmptyBag

\* no request, callback, tick or restore run is between two of its awaits
Quiet ==
  /\ \A call \in InProgress : call.pc = "done"
  /\ \A h \in Handles : ~InFlight(h)
  /\ restore.pc \in {"idle", "done"}
  /\ digests = EmptyBag

MayStart == overlap \/ Quiet

\* the ticks in progress of the jobs in the slots up to h
RECURSIVE TicksUpTo(_)
TicksUpTo(h) ==
  IF h = 0 THEN 0 ELSE BagCardinality(handles[h].pending) + TicksUpTo(h - 1)

\* the requests, ticks and summary runs in progress
Running == BagCardinality(calls) + TicksUpTo(MaxHandles) + BagCardinality(digests)

\* the ids of this run
IdLimit == IF overlap THEN MaxOverlapIds ELSE MaxIds
RunIds == 1..IdLimit

\* the ids a caller can name: those the table has handed out (ids are
\* uuids; GET /schedule lists a row as soon as repo.save has inserted it)
Issued(id) == id < nextId

\* an unhandled promise rejection ends the Node process: everything it held
\* in memory is gone (no onModuleDestroy runs) and the requests it had not
\* answered are lost; left are the answers it had sent
Exit(left) ==
  /\ phase' = "crashed"
  /\ cronJobs' = [i \in Ids |-> NoHandle]
  /\ timers' = [i \in Ids |-> NoHandle]
  /\ handles' = [h \in Handles |-> NoneHandle]
  /\ dailySummaryJob' = "none"
  /\ restore' = NoRestore
  /\ digests' = NoSummary
  /\ calls' = left

\* a request arrives
Begin(call) ==
  /\ phase = "up" /\ MayStart
  /\ Running < MaxCalls
  /\ calls' = calls (+) SetToBag({call})

\* a request in progress moves on
Become(call, next) ==
  calls' = (calls (-) SetToBag({call})) (+) SetToBag({next})

PendingSaves ==
  BagCardinality([call \in {x \in InProgress : x.pc = "c_save"} |->
                    CopiesIn(call, calls)])

\* what the endpoint answers once the service call has settled: the
\* settlement itself, unless the endpoint has answered already
Answer(call, result) == IF call.http = "none" THEN result ELSE call.http

\* a settled request waits for its answer to be taken
Finished(call, result) ==
  [call EXCEPT !.pc = "done", !.result = result, !.http = Answer(call, result)]

\* ScheduleService.create up to its first await
create(dto) ==
  LET call == [IdleCall EXCEPT !.op = "create", !.dto = dto]
  IN IF PastAtCreate(dto, now)
     THEN Begin(Finished(call, "BadRequest"))
     ELSE /\ nextId + PendingSaves <= IdLimit
          /\ Begin([call EXCEPT !.pc = "c_save", !.rec = NewRecord(dto)])

\* POST /schedule: the ValidationPipe, then ScheduleController.create (the
\* payloads with optional fields are tried in the runs without overlap)
HttpCreate(dto) ==
  /\ overlap => dto \in PlainDtos
  /\ IF ~ValidCreateDto(dto)
     THEN Begin(Finished([IdleCall EXCEPT !.op = "create", !.dto = dto],
                         "BadRequest"))
     ELSE create(dto)
  /\ UNCHANGED <<now, phase, store, nextId, cronJobs, timers, handles,
                 dailySummaryJob, restore, overlap, digests, probe>>

\* storage.create: repo.save inserts the row under a fresh id
DbSave(call) ==
  /\ call.pc = "c_save"
  /\ nextId <= IdLimit
  /\ store' = [store EXCEPT ![nextId] = Persist(call.rec)]
  /\ nextId' = nextId + 1
  /\ Become(call, [call EXCEPT !.pc = "c_saved", !.id = nextId,
                               !.rec = Persist(call.rec)])
  /\ UNCHANGED <<now, phase, cronJobs, timers, handles,
                 dailySummaryJob, restore, overlap, digests, probe>>

\* a create that arms a timer for every record that is not recurring
CreateResumeArmsEvents(call) ==
  LET schedule == call.rec
  IN /\ call.pc = "c_saved"
     /\ IF schedule.type = "fixed"
        THEN /\ SetReg(startCronJob(Reg, call.id, schedule))
             /\ Become(call, Finished(call, "ok"))
        ELSE IF schedule.scheduledAt = NullDate
             THEN /\ SetReg(Reg)
                  /\ Become(call, Finished(call, "TypeError"))
             ELSE LET R1 == startTimer(Reg, call.id, schedule, now)
                  IN /\ SetReg(R1)
                     /\ Become(call, Finished(call, IF R1.threw
                                                    THEN "InternalError"
                                                    ELSE "ok"))
     /\ UNCHANGED <<now, phase, store, nextId, dailySummaryJob, restore,
                    overlap, digests, probe>>

\* ScheduleService.create after storage.create; an exception of startTimer
\* rejects the call, with the row saved and the timeout registered
CreateResume(call) ==
  LET schedule == call.rec
  IN /\ call.pc = "c_saved"
     /\ IF schedule.type = "fixed"
        THEN /\ SetReg(startCronJob(Reg, call.id, schedule))
             /\ Become(call, Finished(call, "ok"))
        ELSE IF schedule.type = "manual"
        THEN IF schedule.scheduledAt = NullDate
             THEN /\ SetReg(Reg)
                  /\ Become(call, Finished(call, "TypeError"))
             ELSE LET R1 == startTimer(Reg, call.id, schedule, now)
                  IN /\ SetReg(R1)
                     /\ Become(call, Finished(call, IF R1.threw
                                                    THEN "InternalError"
                                                    ELSE "ok"))
        ELSE /\ SetReg(Reg)
             /\ Become(call, Finished(call, "ok"))
     /\ UNCHANGED <<now, phase, store, nextId, dailySummaryJob, restore,
                    overlap, digests, probe>>

\* PATCH /schedule/:id: ScheduleService.update up to findById's await (the
\* payloads with new text and with an empty scheduledAt are tried in the
\* runs without overlap)
HttpUpdate(id, dto) ==
  /\ Issued(id)
  /\ dto \in UpdateDtosFor(store[id].type)
  /\ overlap => (dto \notin TextDtos /\ dto.scheduledAt # AtEmpty)
  /\ Begin([IdleCall EXCEPT !.op = "update", !.pc = "u_find", !.id = id, !.dto = dto])
  /\ UNCHANGED <<now, phase, store, nextId, cronJobs, timers, handles,
                 dailySummaryJob, restore, overlap, digests, probe>>

\* PATCH /schedule/:id/toggle: ScheduleService.toggleEnabled up to findById
HttpToggle(id) ==
  /\ Issued(id)
  /\ Begin([IdleCall EXCEPT !.op = "toggle", !.pc = "t_find", !.id = id])
  /\ UNCHANGED <<now, phase, store, nextId, cronJobs, timers, handles,
                 dailySummaryJob, restore, overlap, digests, probe>>

\* DELETE /schedule/:id: ScheduleController.remove calls
\* ScheduleService.delete without awaiting it and returns {success: true}
\* at once; the service call runs on to storage.findById
HttpDelete(id) ==
  /\ Issued(id)
  /\ Begin([IdleCall EXCEPT !.op = "delete", !.pc = "d_find", !.id = id,
                            !.http = "ok"])
  /\ UNCHANGED <<now, phase, store, nextId, cronJobs, timers, handles,
                 dailySummaryJob, restore, overlap, digests, probe>>

\* GET /schedule/:id: ScheduleService.findById up to storage.findById
HttpFind(id) ==
  /\ Issued(id)
  /\ Begin([IdleCall EXCEPT !.op = "find", !.pc = "f_find", !.id = id])
  /\ UNCHANGED <<now, phase, store, nextId, cronJobs, timers, handles,
                 dailySummaryJob, restore, overlap, digests, probe>>

(* ------------------------- the store's moments ------------------------- *)
AfterFind(pc) ==
  IF pc = "u_find" THEN "u_found"
  ELSE IF pc = "t_find" THEN "t_found"
  ELSE IF pc = "f_find" THEN "f_found"
  ELSE "d_found"

\* what a request keeps of findById's answer: toggleEnabled works on the
\* whole record and GET returns it, update and delete read its type (and
\* its name, to log it)
Found(call, rec) ==
  IF call.op \in {"toggle", "find"} THEN rec ELSE [NoRec EXCEPT !.type = rec.type]

\* storage.findById: repo.findOneBy reads the row
DbFind(call) ==
  /\ call.pc \in {"u_find", "t_find", "d_find", "f_find"}
  /\ Become(call, [call EXCEPT !.pc = AfterFind(@),
                               !.rec = Found(call, store[call.id])])
  /\ UNCHANGED <<now, phase, store, nextId, cronJobs, timers, handles,
                 dailySummaryJob, restore, overlap, digests, probe>>

\* what a request's pending repo.update writes
WriteOf(call) ==
  IF call.pc = "u_dis" THEN [NoDto EXCEPT !.enabled = "false"] ELSE call.dto

AfterWrite(pc) ==
  IF pc = "u_write" THEN "u_read" ELSE IF pc = "u_dis" THEN "u_disread" ELSE "t_read"

\* storage.update, first await: repo.update changes the row if it exists
DbUpdate(call) ==
  /\ call.pc \in {"u_write", "u_dis", "t_write"}
  /\ store' = IF store[call.id].type = "none" THEN store
              ELSE [store EXCEPT ![call.id] = ApplyPartial(@, WriteOf(call))]
  /\ Become(call, [call EXCEPT !.pc = AfterWrite(@)])
  /\ UNCHANGED <<now, phase, nextId, cronJobs, timers, handles,
                 dailySummaryJob, restore, overlap, digests, probe>>

\* storage.update, second await: repo.findOneBy reads the row back; update
\* and toggleEnabled go on with this answer
DbRead(call) ==
  /\ call.pc \in {"u_read", "t_read"}
  /\ Become(call, [call EXCEPT !.pc = IF @ = "u_read" THEN "u_readdone"
                                      ELSE "t_readdone",
                               !.rec = store[call.id]])
  /\ UNCHANGED <<now, phase, store, nextId, cronJobs, timers, handles,
                 dailySummaryJob, restore, overlap, digests, probe>>

\* storage.delete: repo.delete removes the row
DbDelete(call) ==
  /\ call.pc = "d_del"
  /\ store' = [store EXCEPT ![call.id] = NoRec]
  /\ Become(call, [call EXCEPT !.pc = "d_deleted"])
  /\ UNCHANGED <<now, phase, nextId, cronJobs, timers, handles,
                 dailySummaryJob, restore, overlap, digests, probe>>

(* ----------------------- requests after an await ----------------------- *)
\* ScheduleService.findById: storage.findById answered null
Missing(rec) == rec.type = "none"

\* an update that cancels the job only when the payload touches the
\* schedule (cron, scheduledAt or enabled)
UpdateResumeKeepsJob(call) ==
  LET existing == call.rec
      dto == call.dto
      touches == dto.cron # Undef \/ dto.scheduledAt.k # "undef" \/ dto.enabled # Undef
  IN /\ call.pc = "u_found"
     /\ IF Missing(existing)
        THEN /\ SetReg(Reg)
             /\ Become(call, Finished(call, "NotFound"))
        ELSE IF PastAtUpdate(existing, dto, now)
        THEN /\ SetReg(Reg)
             /\ Become(call, Finished(call, "BadRequest"))
        ELSE /\ SetReg(IF touches THEN stopJob(Reg, call.id) ELSE Reg)
             /\ Become(call, [call EXCEPT !.pc = "u_write", !.rec = NoRec])
     /\ UNCHANGED <<now, phase, store, nextId, dailySummaryJob, restore,
                    overlap, digests, probe>>

\* ScheduleService.update from findById's answer to storage.update
UpdateResume(call) ==
  LET existing == call.rec
      dto == call.dto
  IN /\ call.pc = "u_found"
     /\ IF Missing(existing)
        THEN /\ SetReg(Reg)
             /\ Become(call, Finished(call, "NotFound"))
        ELSE IF PastAtUpdate(existing, dto, now)
        THEN /\ SetReg(Reg)
             /\ Become(call, Finished(call, "BadRequest"))
        ELSE /\ SetReg(stopJob(Reg, call.id))
             /\ Become(call, [call EXCEPT !.pc = "u_write", !.rec = NoRec])
     /\ UNCHANGED <<now, phase, store, nextId, dailySummaryJob, restore,
                    overlap, digests, probe>>

\* ScheduleService.update from storage.update's answer on
UpdateRegister(call) ==
  LET updated == call.rec
  IN /\ call.pc = "u_readdone"
     /\ IF updated.type = "none"
        THEN /\ SetReg(Reg)
             /\ Become(call, Finished(call, "NotFound"))
        ELSE IF updated.enabled /\ updated.type = "fixed"
        THEN /\ SetReg(startCronJob(Reg, call.id, updated))
             /\ Become(call, Finished(call, "ok"))
        ELSE IF updated.enabled /\ updated.type = "manual"
        THEN IF /\ updated.scheduledAt \notin {NullDate, InvalidDate}
                /\ updated.scheduledAt > now
             THEN /\ SetReg(startTimer(Reg, call.id, updated, now))
                  /\ Become(call, Finished(call, "ok"))
             ELSE /\ SetReg(Reg)
                  /\ Become(call, [call EXCEPT !.pc = "u_dis"])
        ELSE /\ SetReg(Reg)
             /\ Become(call, Finished(call, "ok"))
     /\ UNCHANGED <<now, phase, store, nextId, dailySummaryJob, restore,
                    overlap, digests, probe>>

\* ScheduleService.update returning after it disabled an elapsed record: the
\* row storage.update reads back is dropped, update returns the record it
\* read before
UpdateReturn(call) ==
  /\ call.pc = "u_disread"
  /\ Become(call, Finished(call, "ok"))
  /\ UNCHANGED <<now, phase, store, nextId, cronJobs, timers, handles,
                 dailySummaryJob, restore, overlap, digests, probe>>

\* ScheduleService.toggleEnabled from findById's answer to storage.update;
\* an exception of startTimer rejects the call before the write
ToggleResume(call) ==
  LET schedule == call.rec
      newEnabled == ~schedule.enabled
      R1 == stopJob(Reg, call.id)
      next == [call EXCEPT !.pc = "t_write", !.rec = NoRec,
                           !.dto.enabled = IF newEnabled THEN "true" ELSE "false"]
  IN /\ call.pc = "t_found"
     /\ IF Missing(schedule)
        THEN /\ SetReg(Reg)
             /\ Become(call, Finished(call, "NotFound"))
        ELSE IF newEnabled /\ schedule.type = "fixed"
        THEN /\ SetReg(startCronJob(R1, call.id, schedule))
             /\ Become(call, next)
        ELSE IF newEnabled /\ schedule.type = "manual"
        THEN IF Elapsed(schedule, now)
             THEN /\ SetReg(R1)
                  /\ Become(call, Finished(call, "BadRequest"))
             ELSE LET R2 == startTimer(R1, call.id, schedule, now)
                  IN /\ SetReg(R2)
                     /\ Become(call, IF R2.threw
                                     THEN Finished(call, "InternalError")
                                     ELSE next)
        ELSE /\ SetReg(R1)
             /\ Become(call, next)
     /\ UNCHANGED <<now, phase, store, nextId, dailySummaryJob, restore,
                    overlap, digests, probe>>

\* ScheduleService.toggleEnabled returning the row storage.update read back
ToggleReturn(call) ==
  /\ call.pc = "t_readdone"
  /\ Become(call, Finished(call, "ok"))
  /\ UNCHANGED <<now, phase, store, nextId, cronJobs, timers, handles,
                 dailySummaryJob, restore, overlap, digests, probe>>

\* ScheduleService.delete from findById's answer to storage.delete.  For no
\* row findById throws NotFoundException; ScheduleController.remove has
\* dropped the promise of delete after answering, so the rejection is
\* unhandled and the process exits
DeleteResume(call) ==
  /\ call.pc = "d_found"
  /\ IF Missing(call.rec)
     THEN Exit(SetToBag({Finished(call, "NotFound")}))
     ELSE /\ SetReg(stopJob(Reg, call.id))
          /\ Become(call, [call EXCEPT !.pc = "d_del", !.rec = NoRec])
          /\ UNCHANGED <<phase, dailySummaryJob, restore, digests>>
  /\ UNCHANGED <<now, store, nextId, overlap, probe>>

\* ScheduleService.delete returning
DeleteReturn(call) ==
  /\ call.pc = "d_deleted"
  /\ Become(call, Finished(call, "ok"))
  /\ UNCHANGED <<now, phase, store, nextId, cronJobs, timers, handles,
                 dailySummaryJob, restore, overlap, digests, probe>>

\* ScheduleService.findById from storage.findById's answer on: it throws
\* NotFoundException for no row and returns the row otherwise
FindReturn(call) ==
  /\ call.pc = "f_found"
  /\ Become(call, Finished(call, IF Missing(call.rec) THEN "NotFound" ELSE "ok"))
  /\ UNCHANGED <<now, phase, store, nextId, cronJobs, timers, handles,
                 dailySummaryJob, restore, overlap, digests, probe>>

(* ------------------------------- findAll ------------------------------- *)
\* the type and chatId queries GET /schedule is tried with: none, one, both
ListQueries ==
  {[NoDto EXCEPT !.type = ty, !.chatId = ch] :
     ty \in {Undef, "fixed"}, ch \in {Undef, "C1"}}

\* JavaScript truthiness of an optional query string
Given(q) == q \notin {Undef, Null, ""}

\* days since 1970-01-01 of a calendar date (month from 1)
DaysFromCivil(year, month, date) ==
  LET y == IF month <= 2 THEN year - 1 ELSE year
      era == y \div 400
      yoe == y - era * 400
      mp == (month + 9) % 12
      doy == (153 * mp + 2) \div 5 + date - 1
      doe == yoe * 365 + yoe \div 4 - yoe \div 100 + doy
  IN era * 146097 + doe - 719468

\* Date.UTC(year, month, date), in hours (month from 0)
DateUTC(year, month, date) == 24 * DaysFromCivil(year, month + 1, date)

\* midnight of the UTC calendar date of d
UtcDate(d) == DateUTC(getUTCFullYear(d), getUTCMonth(d), getUTCDate(d))

\* a filter that passes over the chatId query
KeepsAnyChat(s, type, chatId, t) ==
  /\ ~(Given(type) /\ s.type # type)
  /\ ~(/\ s.type = "manual" /\ s.scheduledAt \notin {NullDate, InvalidDate}
        /\ s.scheduledAt <= t)
  /\ ~(/\ s.type = "event" /\ s.scheduledAt # NullDate
        /\ \/ s.scheduledAt = InvalidDate
           \/ UtcDate(TimeOf(s.scheduledAt) + KstShift) # UtcDate(TimeOf(t) + KstShift))

\* the callback of all.filter in ScheduleService.findAll, at instant t (for
\* an Invalid Date getTime() <= now is false and Date.UTC(NaN, ...) equals
\* nothing)
Keeps(s, type, chatId, t) ==
  /\ ~(Given(chatId) /\ s.chatId # chatId)
  /\ ~(Given(type) /\ s.type # type)
  /\ ~(/\ s.type = "manual" /\ s.scheduledAt \notin {NullDate, InvalidDate}
        /\ s.scheduledAt <= t)
  /\ ~(/\ s.type = "event" /\ s.scheduledAt # NullDate
        /\ \/ s.scheduledAt = InvalidDate
           \/ UtcDate(TimeOf(s.scheduledAt) + KstShift) # UtcDate(TimeOf(t) + KstShift))

\* all.filter(...): the rows kept, in the order of all
RECURSIVE Filter(_, _, _, _)
Filter(all, type, chatId, t) ==
  IF all = <<>> THEN <<>>
  ELSE (IF Keeps(Head(all).rec, type, chatId, t) THEN <<Head(all)>> ELSE <<>>)
       \o Filter(Tail(all), type, chatId, t)

\* GET /schedule: ScheduleController.findAll, ScheduleService.findAll up to
\* storage.findAll's await (the queries are tried in the runs without
\* overlap)
HttpFindAll(query) ==
  /\ overlap => query = NoDto
  /\ Begin([IdleCall EXCEPT !.op = "findAll", !.pc = "l_read", !.dto = query])
  /\ UNCHANGED <<now, phase, store, nextId, cronJobs, timers, handles,
                 dailySummaryJob, restore, overlap, digests, probe>>

\* storage.findAll: repo.find reads the rows, oldest first
DbList(call) ==
  /\ call.pc = "l_read"
  /\ Become(call, [call EXCEPT !.pc = "l_rows", !.all = Rows(store)])
  /\ UNCHANGED <<now, phase, store, nextId, cronJobs, timers, handles,
                 dailySummaryJob, restore, overlap, digests, probe>>

\* ScheduleService.findAll from storage.findAll's answer on
FindAllReturn(call) ==
  /\ call.pc = "l_rows"
  /\ Become(call, Finished([call EXCEPT !.filtered =
                                Filter(call.all, call.dto.type, call.dto.chatId, now)],
                           "ok"))
  /\ UNCHANGED <<now, phase, store, nextId, cronJobs, timers, handles,
                 dailySummaryJob, restore, overlap, digests, probe>>

\* the caller takes its answer
Respond(call) ==
  /\ call.pc = "done"
  /\ calls' = calls (-) SetToBag({call})
  /\ UNCHANGED <<now, phase, store, nextId, cronJobs, timers, handles,
                 dailySummaryJob, restore, overlap, digests, probe>>

(* ------------------------- timers and cron jobs ------------------------ *)
Due(h) == handles[h].kind = "timer" /\ handles[h].st = "armed" /\ handles[h].fireAt <= now

\* the timeout of startTimer runs: its callback calls sendScheduledMessage
TimerFire(h) ==
  /\ Due(h) /\ MayStart
  /\ handles' = [handles EXCEPT ![h] = [@ EXCEPT !.st = "sending", !.sends = @ + 1]]
  /\ UNCHANGED <<now, phase, store, nextId, cronJobs, timers,
                 dailySummaryJob, calls, restore, overlap, digests, probe>>

\* botService.sendMessage settles (a rejection is caught and logged); the
\* callback goes on to storage.update(id, {enabled: false})
TimerSent(h, ok) ==
  /\ handles[h].st = "sending"
  /\ handles' = [handles EXCEPT
                   ![h] = [@ EXCEPT !.st = "writing",
                                    !.sent = IF ok THEN "ok" ELSE "failed"]]
  /\ UNCHANGED <<now, phase, store, nextId, cronJobs, timers,
                 dailySummaryJob, calls, restore, overlap, digests, probe>>

\* a callback that disables the record only after a send that went through
TimerWriteWhenSent(h) ==
  IF h.sent = "ok" THEN [NoDto EXCEPT !.enabled = "false"] ELSE NoDto

\* what the callback hands to storage.update once the send has settled
TimerWrite(h) == [NoDto EXCEPT !.enabled = "false"]

\* the callback's repo.update executes
DbTimerDisable(h) ==
  LET id == handles[h].id
  IN /\ handles[h].st = "writing"
     /\ store' = IF store[id].type = "none" THEN store
                 ELSE [store EXCEPT ![id] = ApplyPartial(@, TimerWrite(handles[h]))]
     /\ handles' = [handles EXCEPT ![h] = [@ EXCEPT !.st = "written"]]
     /\ UNCHANGED <<now, phase, nextId, cronJobs, timers,
                    dailySummaryJob, calls, restore, overlap, digests, probe>>

\* the callback after storage.update: this.timers.delete(schedule.id); the
\* timeout is spent
TimerDone(h) ==
  /\ handles[h].st = "written"
  /\ timers' = [timers EXCEPT ![handles[h].id] = NoHandle]
  /\ handles' = [handles EXCEPT ![h] = NoneHandle]
  /\ UNCHANGED <<now, phase, store, nextId, cronJobs,
                 dailySummaryJob, calls, restore, overlap, digests, probe>>

\* the outcome a pending send will have
Outcome(ok) == SetToBag({IF ok THEN "ok" ELSE "failed"})

\* a tick that treats the recurring record like a one-shot one: it also
\* writes enabled = false
CronTickDisables(h, ok) ==
  /\ handles[h].kind = "cron" /\ handles[h].st = "running"
  /\ MayStart /\ Running < MaxCalls
  /\ handles' = [handles EXCEPT ![h] = [@ EXCEPT !.pending = @ (+) Outcome(ok)]]
  /\ store' = [store EXCEPT ![handles[h].id] =
                 IF @.type = "none" THEN @ ELSE [@ EXCEPT !.enabled = FALSE]]
  /\ UNCHANGED <<now, phase, nextId, cronJobs, timers,
                 dailySummaryJob, calls, restore, overlap, digests, probe>>

\* a tick of a running CronJob: onTick calls sendScheduledMessage with the
\* schedule the job was started with, and botService.sendMessage is
\* pending, beside the sends of earlier ticks that have not settled
CronTick(h, ok) ==
  /\ handles[h].kind = "cron" /\ handles[h].st = "running"
  /\ MayStart /\ Running < MaxCalls
  /\ handles' = [handles EXCEPT ![h] = [@ EXCEPT !.pending = @ (+) Outcome(ok)]]
  /\ UNCHANGED <<now, phase, store, nextId, cronJobs, timers,
                 dailySummaryJob, calls, restore, overlap, digests, probe>>

\* a tick whose rejected send is not caught: the job stops and leaves the
\* registry
CronLoggedUncaught(h, ok) ==
  /\ handles[h].kind = "cron" /\ BagIn(IF ok THEN "ok" ELSE "failed", handles[h].pending)
  /\ handles' = [handles EXCEPT
                   ![h] = IF ~ok \/ (@.st = "stopped" /\ @.pending = Outcome(ok))
                          THEN NoneHandle
                          ELSE [@ EXCEPT !.pending = @ (-) Outcome(ok)]]
  /\ cronJobs' = IF ~ok
                 THEN [i \in Ids |-> IF cronJobs[i] = h THEN NoHandle ELSE cronJobs[i]]
                 ELSE cronJobs
  /\ UNCHANGED <<now, phase, store, nextId, timers,
                 dailySummaryJob, calls, restore, overlap, digests, probe>>

\* sendScheduledMessage after a pending send settled: it logs the outcome
\* (a rejection is caught) and that tick is over; a job stopped meanwhile is
\* gone with its last tick
CronLogged(h, ok) ==
  /\ handles[h].kind = "cron" /\ BagIn(IF ok THEN "ok" ELSE "failed", handles[h].pending)
  /\ handles' = [handles EXCEPT
                   ![h] = IF @.st = "stopped" /\ @.pending = Outcome(ok)
                          THEN NoneHandle
                          ELSE [@ EXCEPT !.pending = @ (-) Outcome(ok)]]
  /\ UNCHANGED <<now, phase, store, nextId, cronJobs, timers,
                 dailySummaryJob, calls, restore, overlap, digests, probe>>

\* the chats a digest can go to
SummaryDestinations == {"C1", defaultChatId}

\* a sendDailySummary run that has just been called
NewRun == [pc |-> "read", rows |-> <<>>, sends |-> <<>>]

\* a run in progress moves on, or is over
RunBecomes(run, next) ==
  digests' = (digests (-) SetToBag({run})) (+) SetToBag({next})
RunEnds(run) == digests' = digests (-) SetToBag({run})

\* the daily summary job ticks: onTick calls sendDailySummary, whose
\* storage.findAll is pending, beside the runs of earlier ticks
SummaryFire ==
  /\ dailySummaryJob = "running"
  /\ MayStart /\ Running < MaxCalls
  /\ digests' = digests (+) SetToBag({NewRun})
  /\ UNCHANGED <<now, phase, store, nextId, cronJobs, timers, handles,
                 dailySummaryJob, calls, restore, overlap, probe>>

\* sendDailySummary: storage.findAll reads the table
DbSummaryFindAll(run) ==
  /\ run.pc = "read"
  /\ RunBecomes(run, [run EXCEPT !.pc = "rows", !.rows = Rows(store)])
  /\ UNCHANGED <<now, phase, store, nextId, cronJobs, timers, handles,
                 dailySummaryJob, calls, restore, overlap, probe>>

\* the digests of a run, none of them sent yet
Unsent(list) == [k \in 1..Len(list) |-> [digest |-> list[k], sent |-> "none"]]

\* sendDailySummary from storage.findAll's answer on: it builds the digests
\* of the rows it read for the present day and sends the first one; with no
\* digest to send the run is over
SummaryResume(run) ==
  /\ run.pc = "rows"
  /\ LET list == sendDailySummary(run.rows, now)
     IN IF list = <<>> THEN RunEnds(run)
        ELSE RunBecomes(run, [pc |-> "send", rows |-> <<>>, sends |-> Unsent(list)])
  /\ UNCHANGED <<now, phase, store, nextId, cronJobs, timers, handles,
                 dailySummaryJob, calls, restore, overlap, probe>>

\* the digest whose botService.sendMessage is pending
Pending(sends) == CHOOSE k \in 1..Len(sends) :
                    sends[k].sent = "none" /\ \A j \in 1..(k - 1) : sends[j].sent # "none"

\* a loop that a rejected send ends: the digests behind it are not sent
SummarySentUncaught(run, ok) ==
  /\ run.pc = "send"
  /\ LET k == Pending(run.sends)
     IN IF k = Len(run.sends) \/ ~ok THEN RunEnds(run)
        ELSE RunBecomes(run, [run EXCEPT !.sends[k].sent = "ok"])
  /\ UNCHANGED <<now, phase, store, nextId, cronJobs, timers, handles,
                 dailySummaryJob, calls, restore, overlap, probe>>

\* the pending send of a digest settles: a rejection is caught and logged,
\* and the loop over byChatId sends the next digest; after the last one the
\* run is over
SummarySent(run, ok) ==
  /\ run.pc = "send"
  /\ LET k == Pending(run.sends)
     IN IF k = Len(run.sends) THEN RunEnds(run)
        ELSE RunBecomes(run, [run EXCEPT
                                !.sends[k].sent = IF ok THEN "ok" ELSE "failed"])
  /\ UNCHANGED <<now, phase, store, nextId, cronJobs, timers, handles,
                 dailySummaryJob, calls, restore, overlap, probe>>

\* the clock advances, but not past a timeout that is due
Tick ==
  /\ now < MaxTime
  /\ \A h \in Handles : ~Due(h)
  /\ now' = now + 1
  /\ UNCHANGED <<phase, store, nextId, cronJobs, timers, handles,
                 dailySummaryJob, calls, restore, overlap, digests, probe>>

(* --------------------------- process lifecycle ------------------------- *)
\* the loop of restoreSchedules from record i on, up to its next await (the
\* storage.update of an elapsed manual record) or its end
\* a loop that passes over no row
SkipsAbsentOnly(schedule) == schedule.type = "none"

\* restoreSchedules passes over a record that is not enabled (findAll
\* answers the rows that exist)
Skipped(schedule) == schedule.type = "none" \/ ~schedule.enabled

\* the loop of restoreSchedules from row i to its next await, its end or
\* its exception: scheduledAt!.getTime() of a one-shot row without
\* scheduledAt throws TypeError
RECURSIVE RestoreLoop(_, _, _, _)
RestoreLoop(R, snap, i, t) ==
  IF i > MaxIds THEN [R |-> R, at |-> i, threw |-> FALSE]
  ELSE LET schedule == snap[i]
       IN IF Skipped(schedule)
          THEN RestoreLoop(R, snap, i + 1, t)
          ELSE IF schedule.type = "fixed"
          THEN RestoreLoop(startCronJob(R, i, schedule), snap, i + 1, t)
          ELSE IF schedule.type = "manual"
          THEN IF schedule.scheduledAt = NullDate
               THEN [R |-> R, at |-> i, threw |-> TRUE]
               ELSE IF schedule.scheduledAt # InvalidDate /\ schedule.scheduledAt > t
               THEN RestoreLoop(startTimer(R, i, schedule, t), snap, i + 1, t)
               ELSE [R |-> R, at |-> i, threw |-> FALSE]
          ELSE RestoreLoop(R, snap, i + 1, t)

\* restoreSchedules: storage.findAll reads the table
DbRestoreFindAll ==
  /\ restore.pc = "read"
  /\ restore' = [pc |-> "loop", at |-> 1, snap |-> store]
  /\ UNCHANGED <<now, phase, store, nextId, cronJobs, timers, handles,
                 dailySummaryJob, calls, overlap, digests, probe>>

\* restoreSchedules runs on to its next await; at its end onModuleInit
\* starts the daily summary job and the process takes requests; its
\* exception rejects onModuleInit and bootstrap, and the process exits
RestoreRun ==
  LET r == RestoreLoop(Reg, restore.snap, restore.at, now)
  IN /\ restore.pc = "loop"
     /\ IF r.threw
        THEN /\ Exit(calls)
             /\ UNCHANGED <<now, store, nextId, overlap, probe>>
        ELSE /\ SetReg(r.R)
             /\ IF r.at > MaxIds
                THEN /\ restore' = [NoRestore EXCEPT !.pc = "done"]
                     /\ dailySummaryJob' = "running"
                     /\ phase' = "up"
                ELSE /\ restore' = [restore EXCEPT !.pc = "write", !.at = r.at]
                     /\ UNCHANGED <<dailySummaryJob, phase>>
             /\ UNCHANGED <<now, store, nextId, calls, overlap, digests, probe>>

\* restoreSchedules: storage.update(id, {enabled: false}) executes
DbRestoreDisable ==
  LET id == restore.at
  IN /\ restore.pc = "write"
     /\ store' = IF store[id].type = "none" THEN store
                 ELSE [store EXCEPT ![id] = [@ EXCEPT !.enabled = FALSE]]
     /\ restore' = [restore EXCEPT !.pc = "loop", !.at = id + 1]
     /\ UNCHANGED <<now, phase, nextId, cronJobs, timers, handles,
                    dailySummaryJob, calls, overlap, digests, probe>>

\* onModuleDestroy
Shutdown ==
  /\ phase = "up" /\ MayStart
  /\ SetReg(clearAllJobs(Reg))
  /\ dailySummaryJob' = "stopped"
  /\ phase' = "down"
  /\ UNCHANGED <<now, store, nextId, calls, restore, overlap, digests, probe>>

\* the process ends and a new one starts on the same table
Restart ==
  /\ phase \in {"down", "crashed"}
  /\ phase' = "boot"
  /\ cronJobs' = [i \in Ids |-> NoHandle]
  /\ timers' = [i \in Ids |-> NoHandle]
  /\ handles' = [h \in Handles |-> NoneHandle]
  /\ dailySummaryJob' = "none"
  /\ calls' = EmptyBag
  /\ restore' = [NoRestore EXCEPT !.pc = "read"]
  /\ digests' = NoSummary
  /\ UNCHANGED <<now, store, nextId, overlap, probe>>

\* a settled request is answered before anything else runs
Answering == \E call \in InProgress : call.pc = "done"

Next ==
  \/ \E call \in InProgress : Respond(call)
  \/ ~Answering /\ \E h \in Handles, ok \in BOOLEAN : CronLogged(h, ok)
  \/ ~Answering /\ \E dto \in CreateDtos : HttpCreate(dto)
  \/ ~Answering /\ \E id \in RunIds, dto \in UpdateDtos : HttpUpdate(id, dto)
  \/ ~Answering /\ \E id \in RunIds : HttpToggle(id)
  \/ ~Answering /\ \E id \in RunIds : HttpDelete(id)
  \/ ~Answering /\ \E id \in RunIds : HttpFind(id)
  \/ ~Answering /\ \E call \in InProgress : DbSave(call)
  \/ ~Answering /\ \E call \in InProgress : DbFind(call)
  \/ ~Answering /\ \E call \in InProgress : DbUpdate(call)
  \/ ~Answering /\ \E call \in InProgress : DbRead(call)
  \/ ~Answering /\ \E call \in InProgress : DbDelete(call)
  \/ ~Answering /\ \E call \in InProgress : CreateResume(call)
  \/ ~Answering /\ \E call \in InProgress : UpdateResume(call)
  \/ ~Answering /\ \E call \in InProgress : UpdateRegister(call)
  \/ ~Answering /\ \E call \in InProgress : UpdateReturn(call)
  \/ ~Answering /\ \E call \in InProgress : ToggleResume(call)
  \/ ~Answering /\ \E call \in InProgress : ToggleReturn(call)
  \/ ~Answering /\ \E call \in InProgress : DeleteResume(call)
  \/ ~Answering /\ \E call \in InProgress : DeleteReturn(call)
  \/ ~Answering /\ \E call \in InProgress : FindReturn(call)
  \/ ~Answering /\ \E query \in ListQueries : HttpFindAll(query)
  \/ ~Answering /\ \E call \in InProgress : DbList(call)
  \/ ~Answering /\ \E call \in InProgress : FindAllReturn(call)
  \/ ~Answering /\ \E h \in Handles : TimerFire(h)
  \/ ~Answering /\ \E h \in Handles, ok \in BOOLEAN : TimerSent(h, ok)
  \/ ~Answering /\ \E h \in Handles : DbTimerDisable(h)
  \/ ~Answering /\ \E h \in Handles : TimerDone(h)
  \/ ~Answering /\ \E h \in Handles, ok \in BOOLEAN : CronTick(h, ok)
  \/ ~Answering /\ Tick
  \/ ~Answering /\ SummaryFire
  \/ ~Answering /\ \E run \in BagToSet(digests) : DbSummaryFindAll(run)
  \/ ~Answering /\ \E run \in BagToSet(digests) : SummaryResume(run)
  \/ ~Answering /\ \E run \in BagToSet(digests), ok \in BOOLEAN : SummarySent(run, ok)
  \/ ~Answering /\ DbRestoreFindAll
  \/ ~Answering /\ RestoreRun
  \/ ~Answering /\ DbRestoreDisable
  \/ ~Answering /\ Shutdown
  \/ ~Answering /\ Restart

Spec == Init /\ [][Next]_vars

SeqSpec == InitSeq /\ [][Next]_vars

(* ------------------------- failing store writes ------------------------ *)
\* repo.update rejects inside storage.update: the rejection goes up through
\* ScheduleService.update or toggleEnabled, which catch nothing, to the
\* caller; nothing after the await runs
DbUpdateFails(call) ==
  /\ call.pc \in {"u_write", "u_dis", "t_write"}
  /\ Become(call, Finished(call, "InternalError"))
  /\ UNCHANGED <<now, phase, store, nextId, cronJobs, timers, handles,
                 dailySummaryJob, restore, overlap, digests, probe>>

\* repo.update rejects inside the callback of a timeout: the async callback
\* catches nothing and nothing awaits it, so the rejection is unhandled and
\* the process exits
DbTimerDisableFails(h) ==
  /\ handles[h].st = "writing"
  /\ Exit(EmptyBag)
  /\ UNCHANGED <<now, store, nextId, overlap, probe>>

\* the program with a table whose writes can fail
NextFault ==
  \/ Next
  \/ ~Answering /\ \E call \in InProgress : DbUpdateFails(call)
  \/ ~Answering /\ \E h \in Handles : DbTimerDisableFails(h)

\* the runs without overlap in which writes to the table can fail
FaultSpec == InitSeq /\ [][NextFault]_vars

(* --------------------------- the pure helpers -------------------------- *)
\* the terms fields are built from
TermPool ==
  {Lit(0), Lit(1), Lit(3), Lit(5), Lit(7), Lit(10),
   Range(1, 5), Range(5, 7), Step(2), Step(3)}

RECURSIVE TermLists(_)
TermLists(n) ==
  IF n = 0 THEN {<<>>}
  ELSE {Append(l, t) : l \in TermLists(n - 1), t \in TermPool}

\* the fields the matchers are called with: `*`, and the lists of one to
\* MaxTerms terms
FieldPool ==
  {<<Star>>} \cup UNION {TermLists(n) : n \in 1..MaxTerms}

\* the expressions cronMatchesToday is called with: five fields, and the
\* same without the day-of-week field
CronPool ==
  LET minute == {<<Lit(0)>>, <<Lit(30)>>}
      hour == {<<Lit(9)>>, <<Lit(18)>>}
      dayOfMonth == {<<Star>>, <<Lit(1)>>, <<Lit(31)>>, <<Range(1, 15)>>}
      month == {<<Star>>, <<Lit(5)>>, <<Lit(6)>>}
      dayOfWeek == {<<Star>>, <<Range(1, 5)>>, <<Lit(6)>>, <<Lit(0)>>, <<Lit(7)>>,
                    <<Step(2)>>}
      five == {<<mi, h, dm, mo, dw>> :
                 mi \in minute, h \in hour, dm \in dayOfMonth, mo \in month,
                 dw \in dayOfWeek}
  IN five \cup {SubSeq(c, 1, 4) : c \in five}

\* the times the date helpers are called at: 14:00Z and 15:00Z (23:00 and
\* 00:00 at +09:00) of 2024-02-28 and of the days 1, 2, 29 and 366 days later
DatePool ==
  {474744 + 24 * d + h : d \in {0, 1, 2, 29, 366}, h \in {14, 15}}

\* the times cronMatchesToday is called at: a Wednesday, a Friday, a
\* Saturday and a Sunday
DayPool == {TimeOf(1) - 48, TimeOf(1), TimeOf(3), TimeOf(3) + 24}

\* a helper about to be called on its arguments
Ask(fn, arg) == [fn |-> fn, arg |-> arg, done |-> FALSE, out |-> FALSE]

\* the stored chatId of the records the summary is called on
SummaryChats == {"C1", defaultChatId, ""}

\* the records the summary is called on: of each kind, enabled or not, for
\* chat C1, the default chat or none; recurring on weekdays, on Saturdays or
\* on the even days of the week, one-shot and event at instant 1 or 3; and
\* recurring at 10:00, 12:30 and 13:00 for chat C1
SummaryRecs ==
  LET base == [NoRec EXCEPT !.name = "n1", !.message = "m1"]
  IN {[base EXCEPT !.type = "fixed", !.cron = cr, !.enabled = e, !.chatId = c] :
        cr \in {GoodCron, SatCron, StepCron}, e \in BOOLEAN, c \in SummaryChats}
     \cup
     {[base EXCEPT !.type = "fixed", !.cron = cr, !.enabled = TRUE, !.chatId = "C1"] :
        cr \in {TenCron, HalfCron, OneCron}}
     \cup
     {[base EXCEPT !.type = ty, !.scheduledAt = at, !.enabled = e, !.chatId = c] :
        ty \in {"manual", "event"}, at \in {StartTime, MaxTime + 1},
        e \in BOOLEAN, c \in SummaryChats}

\* the tables the summary is called on: one or two rows
SummaryTables ==
  {<<Row(1, a)>> : a \in SummaryRecs}
  \cup {<<Row(1, a), Row(2, b)>> : a \in SummaryRecs, b \in SummaryRecs}

\* the payloads POST /notification/send is tried with: a message, and a
\* chatId that is left out, empty or given
SendDtos ==
  {[message |-> "m1", chatId |-> c] : c \in {Undef, "", "C1"}}

\* a service that logs a rejected send and answers as if it had gone through
sendNotificationSwallows(dto, ok) ==
  LET chatId == IF dto.chatId \in {Undef, Null, ""} THEN defaultChatId
                ELSE dto.chatId
  IN [sends |-> <<[chatId |-> chatId, message |-> dto.message]>>,
      threw |-> FALSE,
      result |-> [success |-> TRUE, chatId |-> chatId]]

\* NotificationService.sendNotification, with botService.sendMessage
\* resolving (ok) or rejecting: the sends it makes, whether it throws, and
\* what it returns when it does not
sendNotification(dto, ok) ==
  LET chatId == IF dto.chatId \in {Undef, Null, ""} THEN defaultChatId
                ELSE dto.chatId
  IN [sends |-> <<[chatId |-> chatId, message |-> dto.message]>>,
      threw |-> ~ok,
      result |-> IF ok THEN [success |-> TRUE, chatId |-> chatId]
                 ELSE [success |-> FALSE, chatId |-> Undef]]

Probes ==
  {Ask("cronFieldMatches", <<f, v>>) : f \in FieldPool, v \in 0..MaxValue}
  \cup {Ask("cronDowMatches", <<f, v>>) : f \in FieldPool, v \in 0..6}
  \cup {Ask("cronMatchesToday", <<c, t>>) : c \in CronPool, t \in DayPool}
  \cup {Ask("isDateToday", <<d, t>>) : d \in DatePool, t \in DatePool}
  \cup {Ask("sendDailySummary", <<rows, t>>) :
          rows \in SummaryTables, t \in {StartTime, MaxTime + 1}}
  \cup {Ask("sendNotification", <<dto, ok>>) : dto \in SendDtos, ok \in BOOLEAN}

InitHelper == InitProgram /\ overlap = FALSE /\ probe \in Probes

\* the helper has returned
Returned(out) == [probe EXCEPT !.done = TRUE, !.out = out]

CallFieldMatches ==
  /\ probe.fn = "cronFieldMatches" /\ ~probe.done
  /\ probe' = Returned(cronFieldMatches(FieldText(probe.arg[1]), probe.arg[2]))
  /\ UNCHANGED <<now, phase, store, nextId, cronJobs, timers, handles,
                 dailySummaryJob, calls, restore, overlap, digests>>

CallDowMatches ==
  /\ probe.fn = "cronDowMatches" /\ ~probe.done
  /\ probe' = Returned(cronDowMatches(FieldText(probe.arg[1]), probe.arg[2]))
  /\ UNCHANGED <<now, phase, store, nextId, cronJobs, timers, handles,
                 dailySummaryJob, calls, restore, overlap, digests>>

CallMatchesToday ==
  /\ probe.fn = "cronMatchesToday" /\ ~probe.done
  /\ probe' = Returned(firesToday(CronText(probe.arg[1]), probe.arg[2]))
  /\ UNCHANGED <<now, phase, store, nextId, cronJobs, timers, handles,
                 dailySummaryJob, calls, restore, overlap, digests>>

CallIsDateToday ==
  /\ probe.fn = "isDateToday" /\ ~probe.done
  /\ probe' = Returned(isDateToday(probe.arg[1], probe.arg[2] + KstShift))
  /\ UNCHANGED <<now, phase, store, nextId, cronJobs, timers, handles,
                 dailySummaryJob, calls, restore, overlap, digests>>

\* the summary job ticks on a table: the sends it makes
CallDailySummary ==
  /\ probe.fn = "sendDailySummary" /\ ~probe.done
  /\ probe' = Returned(sendDailySummary(probe.arg[1], probe.arg[2]))
  /\ UNCHANGED <<now, phase, store, nextId, cronJobs, timers, handles,
                 dailySummaryJob, calls, restore, overlap, digests>>

CallSendNotification ==
  /\ probe.fn = "sendNotification" /\ ~probe.done
  /\ probe' = Returned(sendNotification(probe.arg[1], probe.arg[2]))
  /\ UNCHANGED <<now, phase, store, nextId, cronJobs, timers, handles,
                 dailySummaryJob, calls, restore, overlap, digests>>

NextHelper ==
  \/ CallFieldMatches
  \/ CallDowMatches
  \/ CallMatchesToday
  \/ CallIsDateToday
  \/ CallDailySummary
  \/ CallSendNotification

HelperSpec == InitHelper /\ [][NextHelper]_vars

(* ------------------------------ properties ----------------------------- *)
\* a recurring job that still ticks, or a timeout that has not run yet
Live(h) == handles[h].st \in {"running", "armed"}

LiveFor(id) == {h \in Handles : Live(h) /\ handles[h].id = id}

\* the handle the registry holds for an id in the map of the handle's kind
Registered(h) ==
  IF handles[h].kind = "cron" THEN cronJobs[handles[h].id] = h
  ELSE timers[handles[h].id] = h

\* a successful update whose outcome is an enabled record that can be scheduled
UpdatedToLive(call) ==
  /\ call.op = "update" /\ call.pc = "done" /\ call.result = "ok"
  /\ call.rec.enabled
  /\ \/ call.rec.type = "fixed" /\ CronValid(call.rec.cron)
     \/ call.rec.type = "manual" /\ call.rec.scheduledAt > now

\* C1: when every operation runs to completion before the next starts, no
\* schedule id ever has more than one live recurring job or one-shot timer,
\* and an update that leaves the schedule enabled (update(id, {enabled:
\* true}) on an enabled schedule among them) returns with exactly one live
\* handle for the id
C1_AtMostOneLivePerId ==
  /\ \A id \in Ids : Cardinality(LiveFor(id)) <= 1
  /\ \A call \in InProgress :
       UpdatedToLive(call) => Cardinality(LiveFor(call.id)) = 1

\* C1 witness: update(id, {enabled: true}) has returned for a recurring
\* schedule and one live job is registered for it
C1_Witness ==
  \E call \in InProgress :
    /\ UpdatedToLive(call) /\ call.dto.enabled = "true" /\ call.rec.type = "fixed"
    /\ cronJobs[call.id] # NoHandle /\ LiveFor(call.id) = {cronJobs[call.id]}

\* C2: also when update and toggleEnabled calls overlap at their awaits, no
\* id ever has two live jobs or timers, and every live job or timer is the
\* handle the registry holds for its id
C2_CancelThenRegisterAtomic ==
  \A h \in Handles :
    Live(h) =>
      /\ Registered(h)
      /\ LiveFor(handles[h].id) = {h}

\* C3: a timeout that runs calls send once and never again; once the send
\* has settled, whatever its outcome, the callback writes enabled = false to
\* the record and then removes the id's entry from the timers map, arming
\* nothing new
C3_OneShotFiresOnce ==
  [][\A h \in Handles :
       LET id == handles[h].id
       IN /\ (handles[h].st = "armed" /\ handles'[h].st = "sending")
               => handles'[h].sends = 1
          /\ handles[h].sends >= 1
               => (handles'[h].sends = handles[h].sends \/ handles'[h] = NoneHandle)
          /\ (handles[h].st = "writing" /\ handles'[h].st = "written")
               => (store[id].type # "none" => ~store'[id].enabled)
          /\ (handles[h].st = "written" /\ handles'[h].st # "written")
               => /\ timers'[id] = NoHandle
                  /\ \A g \in Handles : handles'[g] \in {handles[g], NoneHandle}]_vars

\* C3 witness: the send of a one-shot timer failed, it was the only send,
\* and the record has been disabled all the same
C3_Witness ==
  \E h \in Handles :
    /\ handles[h].kind = "timer" /\ handles[h].st = "written"
    /\ handles[h].sent = "failed" /\ handles[h].sends = 1
    /\ store[handles[h].id].type = "manual" /\ ~store[handles[h].id].enabled

\* a create of a one-shot schedule has returned its record
CreatedManual(call) ==
  /\ call.op = "create" /\ call.pc = "done" /\ call.result = "ok"
  /\ call.rec.type = "manual"

\* C4: every create of a one-shot schedule that returns successfully leaves
\* a live timer registered for the new id, also when the clock has passed
\* scheduledAt while the store write was pending
C4_CreateLeavesLiveTimer ==
  \A call \in InProgress :
    CreatedManual(call) =>
      /\ timers[call.id] # NoHandle
      /\ Live(timers[call.id])

\* this request has taken the step that the next state shows (the process
\* has not ended under it)
Moved(call) ==
  /\ CopiesIn(call, calls') < CopiesIn(call, calls)
  /\ phase' = phase

\* this request fails in the step that the next state shows, and the process
\* ends with it
Crashes(call) ==
  /\ phase # "crashed" /\ phase' = "crashed"
  /\ calls' = SetToBag({Finished(call, "NotFound")})

\* toggleEnabled holds the disabled one-shot record it read, whose
\* scheduledAt is not an instant in the future: it is missing, no date at
\* all, or an instant that is not after the present one
ReEnablesElapsed(call) ==
  /\ call.op = "toggle" /\ call.pc = "t_found"
  /\ call.rec.type = "manual" /\ ~call.rec.enabled
  /\ \/ call.rec.scheduledAt \in {NullDate, InvalidDate}
     \/ call.rec.scheduledAt <= now

\* C5: toggleEnabled on a disabled one-shot schedule whose scheduledAt is
\* not strictly in the future fails with the validation error, and that
\* step changes neither the store nor the registry nor any handle
C5_ToggleElapsedFails ==
  [][\A call \in InProgress :
       (ReEnablesElapsed(call) /\ Moved(call)) =>
          /\ Finished(call, "BadRequest") \in BagToSet(calls')
          /\ UNCHANGED <<store, cronJobs, timers, handles>>]_vars

\* the answer of the create that was refused for this payload
Refused(dto) ==
  Finished([IdleCall EXCEPT !.op = "create", !.dto = dto], "BadRequest")

\* C6: POST /schedule for a one-shot schedule whose scheduledAt is not
\* after the present instant is refused, and that request writes no record
\* and registers no timer
C6_CreatePastFails ==
  [][\A dto \in CreateDtos :
       (dto.type = "manual" /\ dto.scheduledAt.k = "iso" /\ dto.scheduledAt.t <= now
        /\ HttpCreate(dto)) =>
          /\ CopiesIn(Refused(dto), calls') = CopiesIn(Refused(dto), calls) + 1
          /\ UNCHANGED <<store, nextId, cronJobs, timers, handles>>]_vars

\* C6 witness: a create naming the present instant has been refused and
\* the table is still empty
C6_Witness ==
  \E call \in InProgress :
    /\ call.op = "create" /\ call.pc = "done" /\ call.result = "BadRequest"
    /\ call.dto.type = "manual" /\ call.dto.scheduledAt = AtIso(now)
    /\ call.id = NoId /\ nextId = 1
    /\ \A i \in Ids : store[i] = NoRec /\ timers[i] = NoHandle

\* update holds a payload that moves its one-shot schedule to an instant
\* that is not in the future
MovesToPast(call) ==
  /\ call.op = "update" /\ call.pc = "u_found"
  /\ call.rec.type = "manual"
  /\ call.dto.scheduledAt.k = "iso" /\ call.dto.scheduledAt.t <= now

\* C7: update of a one-shot schedule with a new scheduledAt that is not in
\* the future is refused, and that step leaves the record, the registry and
\* every handle (the live timer of the id among them) as they were
C7_UpdatePastFails ==
  [][\A call \in InProgress :
       (MovesToPast(call) /\ Moved(call)) =>
          /\ Finished(call, "BadRequest") \in BagToSet(calls')
          /\ UNCHANGED <<store, cronJobs, timers, handles>>]_vars

\* C7 witness: the update has been refused and the timer the id had is
\* still registered and armed
C7_Witness ==
  \E call \in InProgress :
    /\ call.op = "update" /\ call.pc = "done" /\ call.result = "BadRequest"
    /\ call.dto.scheduledAt.k = "iso" /\ call.dto.scheduledAt.t <= now
    /\ store[call.id].type = "manual" /\ store[call.id].enabled
    /\ store[call.id].scheduledAt > now
    /\ timers[call.id] # NoHandle /\ handles[timers[call.id]].st = "armed"

\* C8: POST /schedule for a recurring schedule without a non-empty cron is
\* refused, and that request writes no record and registers no job
C8_CreateFixedNeedsCron ==
  [][\A dto \in CreateDtos :
       (dto.type = "fixed" /\ dto.cron \in {Undef, Null, ""} /\ HttpCreate(dto)) =>
          /\ CopiesIn(Refused(dto), calls') = CopiesIn(Refused(dto), calls) + 1
          /\ UNCHANGED <<store, nextId, cronJobs, timers, handles>>]_vars

\* C8 witness: a create of a recurring schedule with an empty cron has been
\* refused; no id was handed out and no job runs
C8_Witness ==
  \E call \in InProgress :
    /\ call.op = "create" /\ call.pc = "done" /\ call.result = "BadRequest"
    /\ call.dto.type = "fixed" /\ call.dto.cron = ""
    /\ call.id = NoId /\ nextId = 1
    /\ \A i \in Ids : store[i] = NoRec /\ cronJobs[i] = NoHandle

\* C9: POST /schedule for a one-shot or event schedule without scheduledAt
\* is refused, and that request writes no record and registers no timer
C9_CreateNeedsInstant ==
  [][\A dto \in CreateDtos :
       (dto.type \in {"manual", "event"}
        /\ dto.scheduledAt \in {AtUndef, AtEmpty}
        /\ HttpCreate(dto)) =>
          /\ CopiesIn(Refused(dto), calls') = CopiesIn(Refused(dto), calls) + 1
          /\ UNCHANGED <<store, nextId, cronJobs, timers, handles>>]_vars

\* C9 witness: a create of an event schedule without scheduledAt has been
\* refused; no id was handed out and no timer is armed
C9_Witness ==
  \E call \in InProgress :
    /\ call.op = "create" /\ call.pc = "done" /\ call.result = "BadRequest"
    /\ call.dto.type = "event" /\ call.dto.scheduledAt = AtUndef
    /\ call.id = NoId /\ nextId = 1
    /\ \A i \in Ids : store[i] = NoRec /\ timers[i] = NoHandle

\* delete has returned for this id
Deleted(call, id) ==
  /\ call.op = "delete" /\ call.pc = "done" /\ call.result = "ok"
  /\ call.id = id

\* C10: when delete(id) returns for an existing id, neither map of the
\* registry holds id and the store holds no record for id; the record never
\* comes back, and a delete that finds no record fails with NotFound
C10_DeleteRemovesAll ==
  [][\A id \in Ids :
       /\ (\E call \in BagToSet(calls') : Deleted(call, id))
            => /\ store'[id] = NoRec
               /\ cronJobs'[id] = NoHandle /\ timers'[id] = NoHandle
       /\ (id < nextId /\ store[id] = NoRec) => store'[id] = NoRec
       /\ \A call \in InProgress :
            (call.op = "delete" /\ call.pc = "d_found" /\ call.id = id
             /\ call.rec.type = "none" /\ (Moved(call) \/ Crashes(call)))
              => Finished(call, "NotFound") \in BagToSet(calls')]_vars

\* C10 witness: a second delete of an id has failed with NotFound; the id
\* was handed out, and it has no record and no registry entry
C10_Witness ==
  \E call \in InProgress :
    /\ call.op = "delete" /\ call.pc = "done" /\ call.result = "NotFound"
    /\ call.id < nextId /\ store[call.id] = NoRec
    /\ cronJobs[call.id] = NoHandle /\ timers[call.id] = NoHandle

\* findById has answered this request, and the store held no record for its id
FoundNothing(call) ==
  /\ call.pc \in {"f_found", "u_found", "t_found", "d_found"}
  /\ call.rec.type = "none"

\* C11: findById, update, toggleEnabled and delete on an id the store holds
\* no record for: the lookup changes nothing, and the request then fails
\* with NotFound leaving the store, the registry and every handle as they were
C11_UnknownIdNotFound ==
  [][\A call \in InProgress :
       /\ (call.pc \in {"f_find", "u_find", "t_find", "d_find"} /\ Moved(call))
            => UNCHANGED <<store, cronJobs, timers, handles>>
       /\ (FoundNothing(call) /\ (Moved(call) \/ Crashes(call)))
            => /\ Finished(call, "NotFound") \in BagToSet(calls')
               /\ UNCHANGED <<store, cronJobs, timers, handles>>]_vars

\* the registry is what restoreSchedules makes of the table: one live entry
\* for each enabled recurring record and for each enabled one-shot record
\* whose instant is ahead, no entry for any other record, and no enabled
\* one-shot record left behind without a timer
RestoredFrom(id) ==
  LET rec == store[id]
      scheduled == rec.type \in {"fixed", "manual"} /\ rec.enabled
  IN /\ (rec.type = "fixed" /\ rec.enabled)
          => (cronJobs[id] # NoHandle /\ LiveFor(id) = {cronJobs[id]})
     /\ (rec.type = "manual" /\ rec.enabled /\ rec.scheduledAt > now)
          => (timers[id] # NoHandle /\ LiveFor(id) = {timers[id]})
     /\ (rec.type = "manual" /\ rec.enabled) => timers[id] # NoHandle
     /\ cronJobs[id] # NoHandle => (rec.type = "fixed" /\ rec.enabled)
     /\ timers[id] # NoHandle => (rec.type = "manual" /\ rec.enabled)
     /\ ~scheduled => LiveFor(id) = {}

\* C12: when restoreSchedules ends, whatever the table held, the registry
\* holds exactly one live entry for each enabled recurring record and each
\* enabled one-shot record whose scheduledAt is ahead and no other entry, and
\* every enabled one-shot record whose scheduledAt had passed is stored
\* with enabled = false
C12_RestoreRegistersEnabled ==
  [][(restore.pc = "loop" /\ restore'.pc = "done")
       => \A id \in Ids : RestoredFrom(id)']_vars

\* a step of restoreSchedules (or the start of the process that runs it)
RestoreStep == restore' # restore

\* C13: no step of restoreSchedules writes to a disabled record or leaves
\* a registry entry for it, and none leaves two live entries for one id
C13_RestoreSkipsDisabled ==
  [][RestoreStep =>
       \A id \in Ids :
         /\ (store[id].type # "none" /\ ~store[id].enabled)
              => /\ store'[id] = store[id]
                 /\ cronJobs'[id] = NoHandle /\ timers'[id] = NoHandle
         /\ Cardinality(LiveFor(id)') <= 1]_vars

\* C13 witness: restoreSchedules has passed over a disabled record, which
\* has no registry entry, and is at a later record
C13_Witness ==
  /\ restore.pc = "write"
  /\ \E id \in Ids :
       /\ id < restore.at
       /\ store[id].type = "fixed" /\ ~store[id].enabled /\ CronValid(store[id].cron)
       /\ cronJobs[id] = NoHandle /\ timers[id] = NoHandle

\* a tick of a recurring job or the callback of a timeout starts in this step
FireStarts(h) ==
  \/ handles[h].st = "armed" /\ handles'[h].st = "sending"
  \/ /\ handles'[h].kind = "cron"
     /\ BagCardinality(handles'[h].pending) > BagCardinality(handles[h].pending)

\* C14: onModuleDestroy leaves both maps empty, no job or timeout live and
\* the daily summary job stopped; until the process ends no recurring job,
\* one-shot timer or daily summary fires and nothing is registered
C14_ShutdownStopsAll ==
  [][/\ (phase = "up" /\ phase' = "down")
          => /\ \A id \in Ids : cronJobs'[id] = NoHandle /\ timers'[id] = NoHandle
             /\ \A h \in Handles : ~Live(h)'
             /\ dailySummaryJob' = "stopped"
     /\ (phase = "down" /\ phase' = "down")
          => /\ \A h \in Handles : ~FireStarts(h) /\ ~Live(h)'
             /\ dailySummaryJob' = "stopped"
             /\ \A id \in Ids : cronJobs'[id] = NoHandle /\ timers'[id] = NoHandle]_vars

\* C14 witness: the process was shut down while a recurring job and a
\* one-shot timer were live; the clock has reached the timer's instant and
\* nothing is registered or live
C14_Witness ==
  /\ phase = "down"
  /\ \E i, j \in Ids :
       /\ store[i].type = "fixed" /\ store[i].enabled /\ CronValid(store[i].cron)
       /\ store[j].type = "manual" /\ store[j].enabled /\ store[j].scheduledAt = now
  /\ \A id \in Ids : cronJobs[id] = NoHandle /\ timers[id] = NoHandle
  /\ \A h \in Handles : handles[h] = NoneHandle

\* the registry holds an entry for the id
HasEntry(id) == cronJobs[id] # NoHandle \/ timers[id] # NoHandle

\* the entry of the id, if any, is its one live handle, in the map of its kind
EntryIsLive(id) ==
  /\ cronJobs[id] # NoHandle
       => (timers[id] = NoHandle /\ LiveFor(id) = {cronJobs[id]})
  /\ timers[id] # NoHandle
       => (cronJobs[id] = NoHandle /\ LiveFor(id) = {timers[id]})
  /\ ~HasEntry(id) => LiveFor(id) = {}

\* the stored record is one that is to be live: enabled, and recurring or
\* one-shot with its instant ahead
ToBeLive(id) ==
  /\ store[id].enabled
  /\ \/ store[id].type = "fixed"
     \/ store[id].type = "manual" /\ store[id].scheduledAt > now

\* this update returns successfully in the step that the next state shows
UpdateSucceeds(call) ==
  /\ call.op = "update" /\ call.pc \in {"u_readdone", "u_disread"}
  /\ Moved(call)
  /\ Finished(call, "ok") \in BagToSet(calls')

\* C15: update cancels the job or timer of the id before it writes; when
\* it returns successfully the registry holds a live entry for the id iff
\* the stored record is enabled and either recurring or one-shot with
\* scheduledAt ahead, and no enabled one-shot record whose scheduledAt has
\* passed is left in the store
C15_UpdateReRegisters ==
  [][\A call \in InProgress :
       /\ (call.op = "update" /\ call.pc = "u_found" /\ Moved(call)
           /\ \E next \in BagToSet(calls') : next.pc = "u_write" /\ next.id = call.id)
            => (~HasEntry(call.id)' /\ LiveFor(call.id)' = {})
       /\ UpdateSucceeds(call)
            => /\ HasEntry(call.id)' <=> ToBeLive(call.id)'
               /\ EntryIsLive(call.id)'
               /\ ~(/\ store'[call.id].type = "manual" /\ store'[call.id].enabled
                     /\ store'[call.id].scheduledAt <= now')]_vars

\* the value toggleEnabled is about to write, as a boolean
NewEnabled(call) == call.dto.enabled = "true"

\* C16: toggleEnabled writes the negation of the enabled value the store
\* held; when it returns successfully the stored value is that negation and,
\* for a recurring or one-shot record, the registry holds a live entry for
\* the id iff the value is true; an event record has no entry
C16_ToggleFlips ==
  [][\A call \in InProgress :
       /\ (call.op = "toggle" /\ call.pc = "t_found" /\ Moved(call))
            => \A next \in BagToSet(calls') :
                 (next.op = "toggle" /\ next.pc = "t_write" /\ next.id = call.id)
                   => /\ store[call.id].enabled = call.rec.enabled
                      /\ NewEnabled(next) = ~store[call.id].enabled
       /\ (call.op = "toggle" /\ call.pc = "t_readdone" /\ Moved(call))
            => /\ store'[call.id].enabled = NewEnabled(call)
               /\ store'[call.id].type \in {"fixed", "manual"}
                    => (HasEntry(call.id)' <=> NewEnabled(call))
               /\ store'[call.id].type = "event" => ~HasEntry(call.id)'
               /\ EntryIsLive(call.id)']_vars

\* a stored field equals the payload's: the same value, or no value for a
\* field the payload leaves out
SameAs(given, kept) == IF given = Undef THEN kept \in {Null, Undef} ELSE kept = given

\* a property of a row as it is read: undefined when the row has none
Field(rec, f) == IF f \in DOMAIN rec THEN rec[f] ELSE Undef

\* the record is the payload of the create, enabled, with the default
\* chatId for a chatId left out or empty
RecordOf(dto, rec) ==
  /\ rec.enabled
  /\ rec.type = dto.type /\ rec.name = dto.name /\ rec.message = dto.message
  /\ SameAs(dto.cron, rec.cron)
  /\ rec.scheduledAt = (IF Truthy(dto.scheduledAt) THEN ParseDate(dto.scheduledAt)
                         ELSE NullDate)
  /\ SameAs(dto.eventTime, Field(rec, "eventTime"))
  /\ SameAs(dto.description, Field(rec, "description"))
  /\ rec.chatId = (IF dto.chatId \in {Undef, ""} THEN defaultChatId ELSE dto.chatId)

\* C17: when create returns successfully, the record the store holds under
\* the returned id is enabled and carries the payload's type, name, message,
\* cron, scheduledAt, eventTime and description, and the payload's chatId or
\* the default chatId when that is left out or empty; the id was not in the
\* store before; and findById returns the record the store holds
C17_CreateThenFind ==
  [][\A call \in BagToSet(calls') :
       /\ (call.op = "create" /\ call.pc = "done" /\ call.result = "ok")
            => RecordOf(call.dto, store'[call.id])
       /\ (call.op = "create" /\ call.pc = "c_saved" /\ call \notin InProgress)
            => (store[call.id] = NoRec /\ store'[call.id] # NoRec)
       /\ (call.op = "find" /\ call.pc = "done" /\ call.result = "ok")
            => call.rec = store'[call.id]]_vars

\* C18: the id of an event record is in neither map of the registry and
\* has no live job or timer, whatever create, update, toggleEnabled and
\* restoreSchedules have done
C18_EventNeverLive ==
  \A id \in Ids :
    store[id].type = "event"
      => (cronJobs[id] = NoHandle /\ timers[id] = NoHandle /\ LiveFor(id) = {})

\* C18 witness: toggleEnabled has turned an event record on again and the
\* id has no entry
C18_Witness ==
  \E call \in InProgress :
    /\ call.op = "toggle" /\ call.pc = "done" /\ call.result = "ok"
    /\ store[call.id].type = "event" /\ store[call.id].enabled
    /\ ~HasEntry(call.id)


\* the registry holds a recurring job for the id and the job still ticks
LiveJob(id) ==
  /\ cronJobs[id] # NoHandle
  /\ handles[cronJobs[id]].kind = "cron" /\ handles[cronJobs[id]].st = "running"

\* the registry holds a timeout for the id and the timeout has not run yet
LiveTimer(id) ==
  /\ timers[id] # NoHandle
  /\ handles[timers[id]].kind = "timer" /\ handles[timers[id]].st = "armed"

\* C19: while the service is up and no request, callback or restore run is
\* in progress, a recurring record has a live recurring job iff its stored
\* enabled is true, and a one-shot record has a live timer iff its stored
\* enabled is true
C19_EnabledGovernsLiveness ==
  (phase = "up" /\ Quiet) =>
    \A id \in Ids :
      /\ store[id].type = "fixed" => (LiveJob(id) <=> store[id].enabled)
      /\ store[id].type = "manual" => (LiveTimer(id) <=> store[id].enabled)


\* botService.sendMessage of the tick or fire of h rejects in this step
SendFails(h) ==
  \/ handles[h].sent # "failed" /\ handles'[h].sent = "failed"
  \/ CopiesIn("failed", handles'[h].pending) > CopiesIn("failed", handles[h].pending)

\* the tick of h whose send was rejected ends in this step, and no request
\* has stopped the job since the tick began
FailureLogged(h) ==
  /\ handles[h].kind = "cron" /\ handles[h].st = "running"
  /\ CopiesIn("failed", handles'[h].pending) < CopiesIn("failed", handles[h].pending)
  /\ phase' = phase

\* C20: a rejected send of a tick or of a one-shot fire is caught in the
\* scheduler: it changes no request in progress and no answer, the fire goes
\* on to its write, and after the failed tick the recurring job is still
\* running under its registry entry, ready for the next tick
C20_SendFailureCaught ==
  [][\A h \in Handles :
       /\ SendFails(h)
            => /\ calls' = calls /\ store' = store
               /\ cronJobs' = cronJobs /\ timers' = timers
               /\ handles[h].kind = "cron" => handles'[h].st = "running"
               /\ handles[h].kind = "timer" => handles'[h].st = "writing"
       /\ FailureLogged(h)
            => /\ calls' = calls /\ store' = store
               /\ handles'[h] = [handles[h] EXCEPT
                                   !.pending = @ (-) SetToBag({"failed"})]
               /\ handles'[h].st = "running"
               /\ Registered(h) => Registered(h)']_vars

\* a tick of a registered recurring job whose send was rejected: the job
\* is still running under its registry entry
C20_Witness ==
  \E h \in Handles :
    /\ handles[h].kind = "cron" /\ BagIn("failed", handles[h].pending)
    /\ handles[h].st = "running" /\ cronJobs[handles[h].id] = h


\* the callback of the timeout h ends in this step
FireCompletes(h) ==
  /\ handles[h].kind = "timer" /\ handles[h].st = "written"
  /\ handles'[h].st # "written" /\ phase' = phase

\* stopJob or clearAllJobs deletes the registry entry of the handle h in
\* this step
Cancelled(h) ==
  /\ handles[h].kind # "none" /\ Registered(h)
  /\ \A g \in Handles : ~FireCompletes(g)
  /\ IF handles[h].kind = "cron" THEN cronJobs'[handles[h].id] = NoHandle
     ELSE timers'[handles[h].id] = NoHandle

\* C21: a cancelled job or timer starts no tick or fire afterwards; and a
\* one-shot fire that was in flight when its timer was cancelled leaves the
\* registry as it is when it completes, so a timer registered for the same
\* id in the meantime is still in the registry
C21_CancelledFireLeavesRegistry ==
  [][\A h \in Handles :
       /\ Cancelled(h) => ~Live(h)'
       /\ (FireCompletes(h) /\ ~Registered(h))
            => (timers' = timers /\ cronJobs' = cronJobs)]_vars


\* C30: DELETE /schedule/:id answers NotFound for an id that has no record
\* and answers success only for a deletion that has finished: a request it
\* has answered with success has settled, and settled successfully
C30_DeleteAnswersOutcome ==
  \A call \in InProgress :
    call.op = "delete"
      => /\ call.http = "ok" => (call.pc = "done" /\ call.result = "ok")
         /\ (call.pc = "done" /\ call.result = "NotFound") => call.http = "NotFound"


\* sendScheduledMessage(schedule): the chat and the text it hands to
\* botService.sendMessage
Dispatch(schedule) ==
  [chatId |-> IF schedule.chatId = "" THEN defaultChatId ELSE schedule.chatId,
   message |-> schedule.message]

\* the recurring job h ticks in this step
Ticks(h) ==
  /\ handles[h].kind = "cron" /\ handles[h].st = "running"
  /\ BagCardinality(handles'[h].pending) > BagCardinality(handles[h].pending)

\* C29: a tick of a live recurring job dispatches to the chatId (the
\* default one when it is empty) and with the message that the stored record
\* holds at the time of the tick, so no tick after an update of either
\* sends the old one
C29_TickSendsStoredText ==
  [][\A h \in Handles :
       Ticks(h) => Dispatch(handles[h]) = Dispatch(store[handles[h].id])]_vars

\* a recurring job ticks after an update changed the message or the chatId
\* of its record
C29_Witness ==
  \E h \in Handles :
    /\ handles[h].kind = "cron" /\ handles[h].pending # EmptyBag
    /\ cronJobs[handles[h].id] = h
    /\ store[handles[h].id].message = "m2" /\ store[handles[h].id].chatId = ""


\* what a term is specified to match
TermMatches(term, value) ==
  IF term.k = "lit" THEN value = term.a
  ELSE IF term.k = "range" THEN term.a <= value /\ value <= term.b
  ELSE IF term.k = "step" THEN value % term.a = 0
  ELSE FALSE

\* what a field is specified to match: anything for `*`, otherwise what one
\* of its terms matches
FieldMatches(terms, value) ==
  terms = <<Star>> \/ \E k \in 1..Len(terms) : TermMatches(terms[k], value)

\* C26: cronFieldMatches(field, value) is true iff the field is `*` or one
\* of its comma-separated terms matches, where a literal n matches n, a
\* range a-b matches a..b and a step */n matches the multiples of n
C26_FieldMatcher ==
  (probe.fn = "cronFieldMatches" /\ probe.done)
    => probe.out = FieldMatches(probe.arg[1], probe.arg[2])

\* the field "1,3,5" is matched against 3 and the answer is true
C26_Witness ==
  /\ probe.fn = "cronFieldMatches" /\ probe.done /\ probe.out
  /\ probe.arg = << <<Lit(1), Lit(3), Lit(5)>>, 3 >>


\* C27: for a day-of-week field of literals, ranges, lists and step terms
\* and a day of the week 0..6, cronDowMatches answers what cronFieldMatches
\* answers, except that a literal 7 also matches day 0
C27_DowMatcher ==
  (probe.fn = "cronDowMatches" /\ probe.done)
    => probe.out =
         (\/ cronFieldMatches(FieldText(probe.arg[1]), probe.arg[2])
          \/ (probe.arg[2] = 0
              /\ \E k \in 1..Len(probe.arg[1]) : probe.arg[1][k] = Lit(7)))


\* what a day-of-week field is specified to match: what the field matches,
\* and day 0 for a literal 7
DowMatches(terms, dow) ==
  \/ FieldMatches(terms, dow)
  \/ dow = 0 /\ \E k \in 1..Len(terms) : terms[k] = Lit(7)

\* C28: cronMatchesToday is true for a date iff the expression has five
\* fields and its month field matches the date's month, its day-of-month
\* field the date's day and its day-of-week field the date's weekday,
\* whatever the minute and hour fields are; "0 9 * * 1-5" fires on a
\* Wednesday and not on a Saturday
C28_FiresOnDate ==
  (probe.fn = "cronMatchesToday" /\ probe.done)
    => LET fields == probe.arg[1]
           kstNow == probe.arg[2] + KstShift
       IN probe.out =
            (/\ Len(fields) >= 5
             /\ FieldMatches(fields[4], getUTCMonth(kstNow) + 1)
             /\ FieldMatches(fields[3], getUTCDate(kstNow))
             /\ DowMatches(fields[5], getUTCDay(kstNow)))


\* the number of the +09:00 calendar day a time falls on
KstDay(t) == (t + KstShift) \div 24


\* where a record's messages are specified to go
Destination(rec) == IF rec.chatId = "" THEN defaultChatId ELSE rec.chatId

\* a record is specified to fire on the +09:00 calendar date of instant t
FiresOn(rec, t) ==
  LET kstNow == TimeOf(t) + KstShift
      fields == CronFields(rec.cron)
  IN IF rec.type = "fixed"
     THEN /\ FieldMatches(fields[4], getUTCMonth(kstNow) + 1)
          /\ FieldMatches(fields[3], getUTCDate(kstNow))
          /\ DowMatches(fields[5], getUTCDay(kstNow))
     ELSE KstDay(TimeOf(rec.scheduledAt)) = KstDay(TimeOf(t))

\* the ids of the enabled rows of a destination that fire on the date of t
DueFor(chatId, rows, t) ==
  {rows[k].id : k \in {m \in 1..Len(rows) :
                         /\ rows[m].rec.enabled
                         /\ Destination(rows[m].rec) = chatId
                         /\ FiresOn(rows[m].rec, t)}}

\* C24: a daily-summary fire sends, for every destination, exactly one
\* digest if an enabled record of the destination fires today and none
\* otherwise, and the digest lists exactly the enabled records of the
\* destination that fire today
C24_OneDigestPerDestination ==
  (probe.fn = "sendDailySummary" /\ probe.done)
    => LET rows == probe.arg[1]
           t == probe.arg[2]
           sends == probe.out
       IN /\ \A k \in 1..Len(sends) : sends[k].chatId \in {"C1", defaultChatId}
          /\ \A chatId \in {"C1", defaultChatId} :
               LET mine == {k \in 1..Len(sends) : sends[k].chatId = chatId}
               IN IF DueFor(chatId, rows, t) = {} THEN mine = {}
                  ELSE /\ Cardinality(mine) = 1
                       /\ \A k \in mine :
                            sends[k].alarms \cup sends[k].events
                              = DueFor(chatId, rows, t)


\* the rows of a kind among the enabled rows sent to a chat that fall on
\* the +09:00 calendar date of instant t
SameDayRows(kinds, chatId, rows, t) ==
  {rows[k].id : k \in {m \in 1..Len(rows) :
                         /\ rows[m].rec.enabled
                         /\ rows[m].rec.type \in kinds
                         /\ Destination(rows[m].rec) = chatId
                         /\ KstDay(TimeOf(rows[m].rec.scheduledAt)) = KstDay(TimeOf(t))}}

\* the ids of the rows of a kind
RowsOfType(kinds, rows) ==
  {rows[k].id : k \in {m \in 1..Len(rows) : rows[m].rec.type \in kinds}}

\* C25: in the daily summary a one-shot or event record fires today iff
\* the calendar date of scheduledAt shifted by +09:00 is the calendar date of
\* now shifted by +09:00; the event records that qualify are listed as
\* events and never as alarms, the recurring and one-shot records that
\* qualify as alarms and never as events
C25_SameKstDateAndKind ==
  /\ (probe.fn = "isDateToday" /\ probe.done)
       => probe.out = (KstDay(probe.arg[1]) = KstDay(probe.arg[2]))
  /\ (probe.fn = "sendDailySummary" /\ probe.done)
       => LET rows == probe.arg[1]
              t == probe.arg[2]
              sends == probe.out
              listed(chatId, part) ==
                UNION {sends[k][part] : k \in {m \in 1..Len(sends) :
                                                 sends[m].chatId = chatId}}
          IN \A chatId \in {"C1", defaultChatId} :
               /\ listed(chatId, "events") = SameDayRows({"event"}, chatId, rows, t)
               /\ listed(chatId, "alarms") \cap RowsOfType({"manual"}, rows)
                    = SameDayRows({"manual"}, chatId, rows, t)
               /\ listed(chatId, "alarms") \subseteq RowsOfType({"fixed", "manual"}, rows)

\* a summary on the Friday lists an event of that day under the events and
\* a one-shot record of that day under the alarms of the same digest
C25_Witness ==
  /\ probe.fn = "sendDailySummary" /\ probe.done
  /\ probe.arg[2] = StartTime
  /\ Len(probe.arg[1]) = 2
  /\ probe.arg[1][1].rec.type = "event" /\ probe.arg[1][2].rec.type = "manual"
  /\ Len(probe.out) = 1 /\ probe.out[1].chatId = "C1"
  /\ probe.out[1].alarms = {2} /\ probe.out[1].events = {1}


\* the findAll requests that have returned
Listed == {call \in InProgress : call.op = "findAll" /\ call.pc = "done"}

\* the ids of the rows of a sequence
IdsOf(rows) == {rows[k].id : k \in 1..Len(rows)}

\* a row read by a findAll request passes the request's queries
Asked(call, row) ==
  /\ (call.dto.type # Undef => row.rec.type = call.dto.type)
  /\ (call.dto.chatId # Undef => row.rec.chatId = call.dto.chatId)

\* C22: of the rows it read that pass its queries, findAll leaves out a
\* one-shot record exactly when its scheduledAt has elapsed and it is not
\* enabled, and an event record exactly when the +09:00 calendar date of its
\* scheduledAt is not today's; an enabled one-shot record whose scheduledAt
\* has elapsed is returned
C22_HiddenWhenElapsedAndOff ==
  \A call \in Listed :
    \A k \in 1..Len(call.all) :
      LET row == call.all[k]
          hidden == row.id \notin IdsOf(call.filtered)
      IN Asked(call, row) =>
           /\ (row.rec.type = "manual" /\ row.rec.scheduledAt # NullDate)
                => (hidden <=> (row.rec.scheduledAt <= now /\ ~row.rec.enabled))
           /\ (row.rec.type = "event" /\ row.rec.scheduledAt # NullDate)
                => (hidden <=> KstDay(TimeOf(row.rec.scheduledAt)) # KstDay(TimeOf(now)))


\* the rows of a sequence that pass a findAll request's queries, in order
RECURSIVE AskedOf(_, _)
AskedOf(call, rows) ==
  IF rows = <<>> THEN <<>>
  ELSE (IF Asked(call, Head(rows)) THEN <<Head(rows)>> ELSE <<>>)
       \o AskedOf(call, Tail(rows))

\* a findAll request moves on in this step
ListSteps ==
  \E call \in InProgress :
    /\ call.op = "findAll" /\ call.pc \in {"l_read", "l_rows"}
    /\ CopiesIn(call, calls') < CopiesIn(call, calls)

\* C23: findAll(typeFilter, chatFilter) returns, oldest first, exactly the
\* rows that findAll without filters shows at that moment and whose type and
\* chatId are the ones asked for; a recurring record of the table is among
\* the rows of findAll(type=fixed) unless another chat was asked for; no
\* step of findAll writes to the table or to the registry
C23_FiltersInCreationOrder ==
  /\ [](\A call \in Listed :
          /\ call.filtered = AskedOf(call, Filter(call.all, Undef, Undef, now))
          /\ \A j, k \in 1..Len(call.filtered) :
               j < k => call.filtered[j].id < call.filtered[k].id
          /\ \A k \in 1..Len(call.all) :
               (call.all[k].rec.type = "fixed" /\ Asked(call, call.all[k]))
                 => call.all[k].id \in IdsOf(call.filtered)
          /\ (\A c \in InProgress : c.pc = "done") => call.all = Rows(store))
  /\ [][ListSteps => UNCHANGED <<store, nextId, cronJobs, timers, handles>>]_vars

\* findAll(type=fixed) has returned the recurring record created with
\* chatId C1 and left out the one-shot record created after it
C23_Witness ==
  \E call \in Listed :
    /\ call.dto.type = "fixed" /\ call.dto.chatId = Undef
    /\ Len(call.all) = 2 /\ Len(call.filtered) = 1
    /\ call.filtered[1].id = 1
    /\ call.filtered[1].rec.type = "fixed" /\ call.filtered[1].rec.chatId = "C1"
    /\ store[1] = call.filtered[1].rec


\* the tick of the recurring job h is over in this step
TickEnds(h) ==
  /\ handles[h].kind = "cron" /\ handles'[h].kind = "cron"
  /\ BagCardinality(handles'[h].pending) < BagCardinality(handles[h].pending)

\* C38: a tick of a recurring job changes nothing but the outgoing
\* message: from its send to its end, whether the send went through or
\* failed, the records of the table (enabled included), both registry maps
\* and every job and timeout, the ticking job's state included, stay as
\* they were
C38_TickFrame ==
  [][\A h \in Handles :
       (Ticks(h) \/ TickEnds(h))
         => /\ store' = store
            /\ cronJobs' = cronJobs /\ timers' = timers
            /\ handles' = [handles EXCEPT ![h].pending = handles'[h].pending]]_vars

\* a tick's send has failed; the job is still registered and running and
\* its record is still enabled
C38_Witness ==
  \E h \in Handles :
    /\ handles[h].kind = "cron" /\ BagIn("failed", handles[h].pending)
    /\ handles[h].st = "running"
    /\ cronJobs[handles[h].id] = h
    /\ store[handles[h].id].type = "fixed" /\ store[handles[h].id].enabled


\* C39: the two registry maps are disjoint and typed: no id has an
\* entry in both cronJobs and timers, every id with an entry in cronJobs is
\* the id of a recurring record and every id with an entry in timers the id
\* of a one-shot record
C39_RegistryDisjointAndTyped ==
  \A id \in Ids :
    /\ ~(cronJobs[id] # NoHandle /\ timers[id] # NoHandle)
    /\ cronJobs[id] # NoHandle => store[id].type = "fixed"
    /\ timers[id] # NoHandle => store[id].type = "manual"


\* every request has been answered and no callback is between two awaits
AllFinished ==
  /\ calls = EmptyBag
  /\ \A h \in Handles : ~InFlight(h)
  /\ restore.pc \in {"idle", "done"}

\* C34: every id in the registry refers to a record of the table: once
\* every operation in progress has finished, an id whose record is gone has
\* no entry in either map and no live job or timer, also after a delete
\* that overlapped an update or a toggleEnabled of the same id
C34_NoEntryForDeletedId ==
  AllFinished
    => \A id \in Ids :
         store[id].type = "none"
           => (~HasEntry(id) /\ LiveFor(id) = {})


\* C36: the record a successful update returns is the record the table
\* holds for the id when update returns; an update that has forced an
\* enabled one-shot record whose scheduledAt is not ahead to enabled = false
\* returns it with enabled = false
C36_UpdateReturnsStored ==
  \A call \in InProgress :
    (call.op = "update" /\ call.pc = "done" /\ call.result = "ok")
      => call.rec = store[call.id]


\* toggleEnabled calls of the id whose write to the table has been done and
\* that are about to return the row (nothing can fail in them any more)
Toggled(id) ==
  {call \in InProgress :
     call.op = "toggle" /\ call.pc \in {"t_read", "t_readdone"} /\ call.id = id}

\* C35: two toggleEnabled calls on a recurring record that both succeed
\* flip the flag once each, so that the stored flag is back at its value
\* before the two calls: when both have written, also overlapped, they have
\* written opposite values; and the job of the id is registered iff the
\* stored flag is true
C35_TwoTogglesRestore ==
  \A id \in Ids :
    \A c1, c2 \in Toggled(id) :
      (/\ phase = "up"
       /\ store[id].type = "fixed" /\ CronValid(store[id].cron)
       /\ (c1 # c2 \/ CopiesIn(c1, calls) > 1))
        => /\ NewEnabled(c1) # NewEnabled(c2)
           /\ CopiesIn(c1, calls) = 1
           /\ (cronJobs[id] # NoHandle <=> store[id].enabled)


\* a write to the table fails in this step inside the update or
\* toggleEnabled of the id
WriteFailsIn(id) ==
  \E call \in InProgress :
    /\ call.id = id /\ call.pc \in {"u_write", "u_dis", "t_write"}
    /\ Moved(call)
    /\ Finished(call, "InternalError") \in BagToSet(calls')

\* a write to the table fails in this step inside the fire of the timeout h
FireWriteFails(h) ==
  handles[h].st = "writing" /\ phase' = "crashed"

\* C37: a write to the table that fails inside update, toggleEnabled or
\* the fire of a one-shot timer is not tried again (the table is as it was)
\* and leaves the registry in agreement with the table: no live job or
\* timer for a record stored with enabled = false, a live job for every
\* enabled recurring record, and no entry for the timer that has fired
C37_WriteFailureKeepsAgreement ==
  [][/\ \A id \in Ids :
          WriteFailsIn(id)
            => /\ store' = store
               /\ ~store'[id].enabled => LiveFor(id)' = {}
               /\ (store'[id].type = "fixed" /\ store'[id].enabled
                   /\ CronValid(store'[id].cron))
                    => (cronJobs'[id] # NoHandle /\ LiveFor(id)' = {cronJobs'[id]})
     /\ \A h \in Handles :
          FireWriteFails(h)
            => /\ store' = store
               /\ \A id \in Ids :
                    /\ timers'[id] # h
                    /\ ~store'[id].enabled => LiveFor(id)' = {}
                    /\ (store'[id].type = "fixed" /\ store'[id].enabled
                        /\ CronValid(store'[id].cron))
                         => (cronJobs'[id] # NoHandle
                             /\ LiveFor(id)' = {cronJobs'[id]})]_vars


\* the time of day, in minutes, at which a record's alarm is due
MinuteOfDay(rec) ==
  IF rec.type = "fixed"
  THEN LET fields == CronFields(rec.cron)
       IN 60 * fields[2][1].a + fields[1][1].a
  ELSE 60 * ((TimeOf(rec.scheduledAt) + KstShift) % 24)

\* the record of the row with an id
RecOf(rows, id) == (CHOOSE k \in 1..Len(rows) : rows[k].id = id)

\* C32: in each digest the alarms are listed by their time of day: of
\* two alarms of a digest the one due earlier in the day never comes after
\* the one due later (9:00 before 10:00, 12:30 before 13:00)
C32_AlarmsByTimeOfDay ==
  (probe.fn = "sendDailySummary" /\ probe.done)
    => \A d \in 1..Len(probe.out) :
         LET lines == probe.out[d].lines
             rows == probe.arg[1]
             due(k) == MinuteOfDay(rows[RecOf(rows, lines[k].id)].rec)
         IN \A j, k \in 1..Len(lines) : j < k => due(j) <= due(k)


\* the rows of the table whose schedule can be read: all but the recurring
\* ones with an expression that is missing or does not parse
Readable(rows) ==
  SelectSeq(rows, LAMBDA s : s.rec.type = "fixed" => s.rec.cron \in ValidCrons)

\* this run of sendDailySummary takes the step that the next state shows
RunMoved(run) ==
  /\ CopiesIn(run, digests') < CopiesIn(run, digests)
  /\ phase' = phase

\* what the run is after its step: nothing when it is over
RunAfter(run) == BagToSet(digests' (-) (digests (-) SetToBag({run})))

\* the sends of the run after its step
SendsAfter(run) ==
  IF RunAfter(run) = {} THEN <<>> ELSE (CHOOSE next \in RunAfter(run) : TRUE).sends

\* the sends to a chat among the sends of a run
AttemptsTo(chatId, attempts) ==
  {k \in 1..Len(attempts) : attempts[k].digest.chatId = chatId}

\* C33: a digest whose send fails does not stop the daily summary: in
\* every run each destination with an enabled record firing today has
\* exactly one digest to send, and no other destination has one; a send
\* that settles, rejected or not, is followed by the send of the next
\* digest, and the run is over only when the last digest was attempted; the
\* run writes nothing to the table or the registry and changes no request,
\* and the job is running as before
C33_FailedDigestDoesNotStopOthers ==
  [][/\ \A run \in BagToSet(digests) :
          /\ (run.pc = "rows" /\ RunMoved(run))
               => /\ \A chatId \in SummaryDestinations :
                       Cardinality(AttemptsTo(chatId, SendsAfter(run)))
                         = IF DueFor(chatId, Readable(run.rows), now) = {}
                           THEN 0 ELSE 1
                  /\ \A k \in 1..Len(SendsAfter(run)) :
                       SendsAfter(run)[k].sent = "none"
          /\ (run.pc = "send" /\ RunMoved(run))
               => LET k == Pending(run.sends)
                  IN IF k = Len(run.sends) THEN RunAfter(run) = {}
                     ELSE /\ RunAfter(run) # {}
                          /\ Len(SendsAfter(run)) = Len(run.sends)
                          /\ SendsAfter(run)[k].sent \in {"ok", "failed"}
                          /\ \A j \in 1..Len(run.sends) :
                                /\ SendsAfter(run)[j].digest = run.sends[j].digest
                                /\ j # k => SendsAfter(run)[j].sent = run.sends[j].sent
     /\ (digests' # digests /\ phase' = phase)
          => /\ store' = store /\ cronJobs' = cronJobs /\ timers' = timers
             /\ handles' = handles /\ calls' = calls
             /\ dailySummaryJob' = dailySummaryJob]_vars

\* a run in which the first digest was rejected and the second one, to
\* another chat, is being sent
C33_Witness ==
  \E run \in BagToSet(digests) :
    /\ run.pc = "send"
    /\ Len(run.sends) = 2
    /\ run.sends[1].sent = "failed" /\ run.sends[2].sent = "none"
    /\ run.sends[1].digest.chatId # run.sends[2].digest.chatId


\* C31: an immediate notification is sent exactly once, to the chatId of
\* the payload or to the configured default chat when the payload has none
\* or an empty one; when the send goes through the answer is success with
\* the chat id that was used, and when it fails the error goes to the
\* caller and there is no success answer
C31_ImmediateSendOnce ==
  (probe.fn = "sendNotification" /\ probe.done)
    => LET dto == probe.arg[1]
           ok == probe.arg[2]
           used == IF dto.chatId = Undef \/ dto.chatId = "" THEN defaultChatId
                   ELSE dto.chatId
       IN /\ probe.out.sends = <<[chatId |-> used, message |-> dto.message]>>
          /\ ok => (~probe.out.threw
                    /\ probe.out.result = [success |-> TRUE, chatId |-> used])
          /\ ~ok => (probe.out.threw /\ ~probe.out.result.success)

\* a send to the default chat, for a payload with an empty chatId, has
\* failed and the error has reached the caller
C31_Witness ==
  /\ probe.fn = "sendNotification" /\ probe.done
  /\ probe.arg[1].chatId = "" /\ ~probe.arg[2]
  /\ probe.out.threw /\ probe.out.sends[1].chatId = defaultChatId

=============================================================================
